---- MODULE Spec2Model ----
(***************************************************************************)
(* Massachusetts Open Checkbook: the data cleaning pipeline.               *)
(*                                                                         *)
(* Text is modelled as a sequence of one-character strings, so that        *)
(* trimming, newline replacement, case folding and substring search are    *)
(* computed character by character as the Python code computes them.       *)
(* Floats are modelled as integers in hundredths (0.25 is 25), with NaN    *)
(* and +/- infinity as separate kinds.                                     *)
(*                                                                         *)
(* The loaders are those of eda_analysis.py; dashboard.py and              *)
(* generate_report.py carry copies of the same statements.                 *)
(***************************************************************************)
EXTENDS Integers, Sequences, FiniteSets, TLC

VARIABLES
    vpc,          \* load_vendor_data: "start", "loop", "done", "failed"
    sheet_names,  \* xl.sheet_names of the vendor workbook
    vi,           \* position of the for-loop over xl.sheet_names
    frames,       \* the list `frames` of per-sheet tables
    combined,     \* the table load_vendor_data returns (<<>> until it returns)
    verr,         \* the exception that ended load_vendor_data, or "none"
    vsource,      \* history: what pd.read_excel returned for each sheet read
    cpc,          \* load_categorized_companies: "start", "loop", "done", "failed"
    csheet_names, \* xl.sheet_names of the categorized-company workbook
    ci,           \* position of the for-loop over xl.sheet_names
    cframes,      \* the list `frames` of record dicts
    cat_df,       \* the table load_categorized_companies returns
    cerr,         \* the exception that ended the loader, or "none"
    csource,      \* history: what pd.read_excel returned for each sheet read
    tables,       \* the shared tables: vendor_df, cat_df, vendor_with_sdo
    loaded,       \* history: the shared tables as they were right after loading
    view,         \* what the last view function returned
    reqs,         \* the dashboard's chart requests in flight, one per slot
    run,          \* the script that is running, its position and its outcome
    files         \* the artifacts on disk, each with the run that wrote it

vvars == <<vpc, sheet_names, vi, frames, combined, verr, vsource>>
cvars == <<cpc, csheet_names, ci, cframes, cat_df, cerr, csource>>
wvars == <<tables, loaded, view, reqs, run, files>>
vars == <<vvars, cvars, wvars>>

---------------------------------------------------------------------------
(* Bounds of the model *)

MaxSheets == 2      \* sheets in the vendor workbook
MaxRows == 3        \* data rows in the vendor workbook, all sheets together
MaxCSheets == 2     \* sheets in the categorized-company workbook
MaxCRows == 3       \* data rows in that workbook, all sheets together

---------------------------------------------------------------------------
(* Text primitives (Python str / pandas .str methods) *)

NL == "\n"

UpperAlpha ==
    <<"A", "B", "C", "D", "E", "F", "G", "H", "I", "J", "K", "L", "M",
      "N", "O", "P", "Q", "R", "S", "T", "U", "V", "W", "X", "Y", "Z">>

LowerAlpha ==
    <<"a", "b", "c", "d", "e", "f", "g", "h", "i", "j", "k", "l", "m",
      "n", "o", "p", "q", "r", "s", "t", "u", "v", "w", "x", "y", "z">>

Digits == <<"0", "1", "2", "3", "4", "5", "6", "7", "8", "9">>

\* the characters str.strip() removes
Whitespace == {" ", "\t", "\n", "\r", "\f"}

\* the lower-case letter of every upper-case letter
LowerOf ==
    [c \in {UpperAlpha[i] : i \in 1..26} |->
        LowerAlpha[CHOOSE i \in 1..26 : UpperAlpha[i] = c]]

LowerChar(c) == IF c \in DOMAIN LowerOf THEN LowerOf[c] ELSE c

\* str.lower()
Lower(s) == [i \in 1..Len(s) |-> LowerChar(s[i])]

\* the Python test `kw in x` on strings
Contains(x, kw) ==
    \E i \in 0..(Len(x) - Len(kw)) : SubSeq(x, i + 1, i + Len(kw)) = kw

\* str.strip()
Strip(s) ==
    LET keep == {i \in 1..Len(s) : s[i] \notin Whitespace}
    IN  IF keep = {} THEN <<>>
        ELSE LET lo == CHOOSE i \in keep : \A j \in keep : i <= j
                 hi == CHOOSE i \in keep : \A j \in keep : j <= i
             IN  SubSeq(s, lo, hi)

\* .str.replace('\n', ' ', regex=False)
ReplaceNewline(s) == [i \in 1..Len(s) |-> IF s[i] = NL THEN " " ELSE s[i]]

---------------------------------------------------------------------------
(* Spreadsheet cells and what pd.read_excel makes of them *)

Blank == [t |-> "blank", s |-> <<>>, v |-> 0]
Text(s) == [t |-> "text", s |-> s, v |-> 0]
Num(v) == [t |-> "num", s |-> <<>>, v |-> v]

\* the strings pd.read_excel reads as NaN (keep_default_na=True)
DefaultNA ==
    { <<>>,
      <<"#", "N", "/", "A">>,
      <<"#", "N", "/", "A", " ", "N", "/", "A">>,
      <<"#", "N", "A">>,
      <<"-", "1", ".", "#", "I", "N", "D">>,
      <<"-", "1", ".", "#", "Q", "N", "A", "N">>,
      <<"-", "N", "a", "N">>,
      <<"-", "n", "a", "n">>,
      <<"1", ".", "#", "I", "N", "D">>,
      <<"1", ".", "#", "Q", "N", "A", "N">>,
      <<"<", "N", "A", ">">>,
      <<"N", "/", "A">>,
      <<"N", "A">>,
      <<"N", "U", "L", "L">>,
      <<"N", "a", "N">>,
      <<"N", "o", "n", "e">>,
      <<"n", "/", "a">>,
      <<"n", "a", "n">>,
      <<"n", "u", "l", "l">> }

\* one cell as pd.read_excel delivers it
ReadCell(c) == IF c.t = "text" /\ c.s \in DefaultNA THEN Blank ELSE c

AsStr_Empty(c) == c.s

\* .astype(str) on an object column holding str and NaN
AsStr(c) == IF c.t = "blank" THEN <<"n", "a", "n">> ELSE c.s

---------------------------------------------------------------------------
(* Numbers: pd.to_numeric(..., errors='coerce') *)

NaN == [k |-> "nan", v |-> 0]
Float(v) == [k |-> "num", v |-> v]
Inf(sign) == [k |-> "inf", v |-> sign]

DigitVal(c) == (CHOOSE i \in 1..10 : Digits[i] = c) - 1

IsDigit(c) == \E i \in 1..10 : Digits[i] = c

RECURSIVE IntVal(_)
IntVal(s) == IF s = <<>> THEN 0
             ELSE 10 * IntVal(SubSeq(s, 1, Len(s) - 1)) + DigitVal(s[Len(s)])

AllDigits(s) == \A i \in 1..Len(s) : IsDigit(s[i])

\* an unsigned decimal literal with at most two fractional digits, in hundredths
ParseUnsigned(s) ==
    LET dots == {i \in 1..Len(s) : s[i] = "."}
    IN  IF s = <<>> THEN NaN
        ELSE IF dots = {} THEN
            IF AllDigits(s) THEN Float(100 * IntVal(s)) ELSE NaN
        ELSE IF Cardinality(dots) > 1 THEN NaN
        ELSE LET d == CHOOSE i \in dots : TRUE
                 ip == SubSeq(s, 1, d - 1)
                 fp == SubSeq(s, d + 1, Len(s))
             IN  IF ~AllDigits(ip) \/ ~AllDigits(fp) \/ Len(ip) + Len(fp) = 0
                    \/ Len(fp) > 2
                 THEN NaN
                 ELSE Float(100 * IntVal(ip)
                            + (IF Len(fp) = 1 THEN 10 * IntVal(fp) ELSE IntVal(fp)))

InfWords == { <<"i", "n", "f">>, <<"i", "n", "f", "i", "n", "i", "t", "y">> }

\* the float a string parses to, NaN when it does not parse: a decimal
\* literal (surrounding blanks allowed), or one of the spellings of infinity
ParseFloat(s0) ==
    LET s == Strip(s0)
        neg == s # <<>> /\ s[1] = "-"
        signed == s # <<>> /\ s[1] \in {"-", "+"}
        body == IF signed THEN SubSeq(s, 2, Len(s)) ELSE s
        mag == ParseUnsigned(body)
        rawsigned == s0 # <<>> /\ s0[1] \in {"-", "+"}
        rawbody == IF rawsigned THEN SubSeq(s0, 2, Len(s0)) ELSE s0
    IN  IF Lower(rawbody) \in InfWords
        THEN Inf(IF s0[1] = "-" THEN -1 ELSE 1)
        ELSE IF mag.k = "num" /\ neg THEN Float(-mag.v)
        ELSE mag

\* pd.to_numeric(column, errors='coerce'), one cell
ToNumeric(c) ==
    IF c.t = "num" THEN Float(c.v)
    ELSE IF c.t = "blank" THEN NaN
    ELSE ParseFloat(c.s)

---------------------------------------------------------------------------
(* Configuration constants of eda_analysis.py *)

\* SKIP_SHEETS = ['Abbreviations ']
SKIP_SHEETS == << <<"A", "b", "b", "r", "e", "v", "i", "a", "t", "i", "o", "n", "s", " ">> >>

metadata_keywords ==
    << <<"M", "a", "s", "t", "e", "r", " ", "C", "o", "n", "t", "r", "a", "c", "t">>,
       <<"S", "o", "l", "i", "c", "i", "t", "a", "t", "i", "o", "n", " ", "E", "n", "a", "b", "l", "e", "d">>,
       <<"M", "a", "s", "t", "e", "r", " ", "M", "B", "P", "O">>,
       <<"B", "i", "d", " ", "a", "n", "d", " ", "C", "o", "n", "t", "r", "a", "c", "t">>,
       <<"C", "a", "t", "e", "g", "o", "r", "y", " ", "a", "n", "d", " ", "V", "e", "n", "d", "o", "r">>,
       <<"C", "a", "t", "e", "g", "o", "r", "y", " ", "D", "e", "v", "e", "l", "o", "p", "m", "e", "n", "t">>,
       <<"M", "a", "s", "s", " ", "G", "o", "v">>,
       <<"O", "S", "D", " ", "H", "e", "l", "p", " ", "D", "e", "s", "k">>,
       <<"N", "/", "A">> >>

\* df.iloc[:, :7] and the seven names assigned to df.columns
KeepCols == 7

---------------------------------------------------------------------------
(* The vendor workbook: the inputs the model draws from *)

SheetITE == <<"I", "T", "E">>
SheetFAC == <<" ", "F", "A", "C", " ">>
SheetAbbrev == <<"A", "b", "b", "r", "e", "v", "i", "a", "t", "i", "o", "n", "s", " ">>
SheetAbbrevPadded == <<" ", "A", "b", "b", "r", "e", "v", "i", "a", "t", "i", "o", "n", "s">>

VendorSheetNames == {SheetITE, SheetFAC, SheetAbbrev, SheetAbbrevPadded}

Row(code, name, company, sdo) ==
    [Contract_Code |-> code, Name |-> name, Company |-> company,
     Role |-> Text(<<"P", "M">>), Email |-> Blank, Phone |-> Num(5),
     SDO_Commitment_Pct |-> sdo]

\* text to be cleaned in every string column, commitment as numeric text
RowClean ==
    Row(Text(<<" ", "I", "T", NL, "1">>), Text(<<"J", NL, NL, "K", " ">>),
        Text(<<NL, "A", NL, "B", " ">>), Text(<<"0", ".", "2", "5">>))
\* a boilerplate row: the phrase in another case, inside a longer text
RowMeta ==
    Row(Text(<<"I", "T", "2">>), Blank,
        Text(<<"x", " ", "m", "a", "s", "s", " ", "G", "O", "V", ".">>), Num(150))
\* a boilerplate phrase broken over two lines of the cell
RowMetaNewline ==
    Row(Text(<<"I", "T", "3">>), Text(<<"L">>),
        Text(<<"M", "a", "s", "s", NL, "G", "o", "v">>), Text(<<"a", "b", "c">>))
\* empty cells
RowBlank == Row(Blank, Blank, Blank, Blank)
\* the commitment typed as the text inf
RowInf ==
    Row(Text(<<"I", "T", "4">>), Text(<<"M">>), Text(<<"A", "c", "m", "e">>),
        Text(<<"i", "n", "f">>))
\* the company typed as N/A, a numeric commitment cell
RowNA ==
    Row(Text(<<"I", "T", "5">>), Text(<<"N">>), Text(<<"N", "/", "A">>), Num(40))

VendorRows == {RowClean, RowMeta, RowMetaNewline, RowBlank, RowInf, RowNA}

\* all sequences over S of length at most n
SeqUpTo(S, n) == UNION {[1..k -> S] : k \in 0..n}

IsInjective(f) == \A i, j \in DOMAIN f : f[i] = f[j] => i = j

\* what a sheet of the file holds: its width and its data rows (header
\* excluded), at most n of them
VendorSheets(n) ==
    {[ncols |-> KeepCols - 1, rows |-> <<>>]}
    \cup {[ncols |-> KeepCols, rows |-> r] : r \in SeqUpTo(VendorRows, n)}

NotRead == [read |-> FALSE, ncols |-> 0, rows |-> <<>>]
WasRead(sh) == [read |-> TRUE, ncols |-> sh.ncols, rows |-> sh.rows]

RECURSIVE RowsRead(_)
RowsRead(src) ==
    IF src = <<>> THEN 0 ELSE Len(src[1].rows) + RowsRead(Tail(src))

---------------------------------------------------------------------------
(* load_vendor_data *)

\* sheet.strip() in [s.strip() for s in SKIP_SHEETS]
IsSkipped_Untrimmed(sheet) ==
    sheet \in {SKIP_SHEETS[i] : i \in 1..Len(SKIP_SHEETS)}

IsSkipped(sheet) ==
    Strip(sheet) \in {Strip(SKIP_SHEETS[i]) : i \in 1..Len(SKIP_SHEETS)}

\* pd.read_excel(filepath, sheet_name=sheet, header=0): the data rows
ReadExcel(sh) ==
    [i \in 1..Len(sh.rows) |->
        [c \in DOMAIN sh.rows[i] |-> ReadCell(sh.rows[i][c])]]

\* kw.lower() for kw in metadata_keywords
LoweredKeywords ==
    [k \in 1..Len(metadata_keywords) |-> Lower(metadata_keywords[k])]

\* the lambda of df['Company'].astype(str).apply(...): TRUE for a row to keep
MetadataMask(company) ==
    ~\E k \in 1..Len(metadata_keywords) :
        Contains(Lower(AsStr(company)), LoweredKeywords[k])

CleanText_NoStrip(c) == ReplaceNewline(AsStr(c))

\* .astype(str).str.replace('\n', ' ', regex=False).str.strip()
CleanText(c) == Strip(ReplaceNewline(AsStr(c)))

\* df['Category'] = sheet.strip()
Category(sheet) == Strip(sheet)

\* one row of the per-sheet table after cleaning; src records its origin
CleanRow(r, sheet, pos, i) ==
    [Contract_Code |-> CleanText(r.Contract_Code),
     Name |-> CleanText(r.Name),
     Company |-> CleanText(r.Company),
     Role |-> r.Role, Email |-> r.Email, Phone |-> r.Phone,
     SDO_Commitment_Pct |-> ToNumeric(r.SDO_Commitment_Pct),
     Category |-> Category(sheet),
     src |-> <<pos, i>>]

RECURSIVE FilterRows(_, _, _, _)
FilterRows(df, sheet, pos, i) ==
    IF i > Len(df) THEN <<>>
    ELSE (IF MetadataMask(df[i].Company)
          THEN <<CleanRow(df[i], sheet, pos, i)>> ELSE <<>>)
         \o FilterRows(df, sheet, pos, i + 1)

ProcessSheet_Reversed(sh, sheet, pos) ==
    LET f == FilterRows(ReadExcel(sh), sheet, pos, 1)
    IN  [i \in 1..Len(f) |-> f[Len(f) + 1 - i]]

\* the body of the for-loop for one retained sheet: the frame appended
ProcessSheet(sh, sheet, pos) == FilterRows(ReadExcel(sh), sheet, pos, 1)

RECURSIVE ConcatFrames_DropFirstRow(_)
ConcatFrames_DropFirstRow(fs) ==
    IF fs = <<>> THEN <<>>
    ELSE (IF Len(fs) > 1 /\ fs[1] # <<>> THEN Tail(fs[1]) ELSE fs[1])
         \o ConcatFrames_DropFirstRow(Tail(fs))

\* pd.concat(frames, ignore_index=True)
RECURSIVE ConcatFrames(_)
ConcatFrames(fs) ==
    IF fs = <<>> THEN <<>> ELSE fs[1] \o ConcatFrames(Tail(fs))

TooFewColumns_Never(sh) == FALSE

\* df.columns = [seven names] raises ValueError on a table of other width
TooFewColumns(sh) == sh.ncols < KeepCols

\* xl = pd.ExcelFile(filepath)
OpenWorkbook ==
    /\ vpc = "start"
    /\ \/ /\ \E names \in SeqUpTo(VendorSheetNames, MaxSheets) :
                /\ IsInjective(names)
                /\ sheet_names' = names
          /\ vpc' = "loop"
          /\ verr' = "none"
       \/ /\ vpc' = "failed"
          /\ verr' = "OpenError"
          /\ UNCHANGED sheet_names
    /\ UNCHANGED <<vi, frames, combined, vsource, cvars, wvars>>

\* a loop iteration that takes `continue`
SkipSheet ==
    /\ vpc = "loop"
    /\ vi <= Len(sheet_names)
    /\ IsSkipped(sheet_names[vi])
    /\ vi' = vi + 1
    /\ vsource' = Append(vsource, NotRead)
    /\ UNCHANGED <<vpc, sheet_names, frames, combined, verr, cvars, wvars>>

\* a loop iteration on a retained sheet
LoadSheet ==
    /\ vpc = "loop"
    /\ vi <= Len(sheet_names)
    /\ ~IsSkipped(sheet_names[vi])
    /\ \E sh \in VendorSheets(MaxRows - RowsRead(vsource)) :
        /\ vsource' = Append(vsource, WasRead(sh))
        /\ \/ \* df.columns = [7 names] on a narrower table: ValueError
              /\ TooFewColumns(sh)
              /\ vpc' = "failed"
              /\ verr' = "ValueError"
              /\ UNCHANGED <<vi, frames>>
           \/ \* a sheet without data rows: the mask is an empty Series that is
              \* not boolean, so df[mask] may select columns (none) instead of
              \* rows, and df['SDO_Commitment_Pct'] then raises KeyError; the
              \* outcome depends on the pandas build, so both are allowed
              /\ ~TooFewColumns(sh)
              /\ sh.rows = <<>>
              /\ vpc' = "failed"
              /\ verr' = "KeyError"
              /\ UNCHANGED <<vi, frames>>
           \/ /\ ~TooFewColumns(sh)
              /\ frames' = Append(frames, ProcessSheet(sh, sheet_names[vi], vi))
              /\ vi' = vi + 1
              /\ UNCHANGED <<vpc, verr>>
    /\ UNCHANGED <<sheet_names, combined, cvars, wvars>>

ConcatAndReturn_EmptyTable ==
    /\ vpc = "loop"
    /\ vi > Len(sheet_names)
    /\ combined' = ConcatFrames(frames)
    /\ vpc' = "done"
    /\ UNCHANGED <<verr, sheet_names, vi, frames, vsource, cvars, wvars>>

\* combined = pd.concat(frames, ignore_index=True); return combined
ConcatAndReturn ==
    /\ vpc = "loop"
    /\ vi > Len(sheet_names)
    /\ \/ \* pd.concat([]) raises "No objects to concatenate"
          /\ frames = <<>>
          /\ vpc' = "failed"
          /\ verr' = "ValueError"
          /\ UNCHANGED combined
       \/ /\ frames # <<>>
          /\ combined' = ConcatFrames(frames)
          /\ vpc' = "done"
          /\ UNCHANGED verr
    /\ UNCHANGED <<sheet_names, vi, frames, vsource, cvars, wvars>>

CIdle ==
    /\ cpc = "start" /\ csheet_names = <<>> /\ ci = 1 /\ cframes = <<>>
    /\ cat_df = <<>> /\ cerr = "none" /\ csource = <<>>

\* no table is shared, no view has run, no request and no script is running
WIdle ==
    /\ tables = <<>> /\ loaded = <<>> /\ view = <<>>
    /\ reqs = <<>> /\ run = <<>> /\ files = {}

VInit ==
    /\ vpc = "start" /\ sheet_names = <<>> /\ vi = 1 /\ frames = <<>>
    /\ combined = <<>> /\ verr = "none" /\ vsource = <<>>

VendorInit == VInit /\ CIdle /\ WIdle

VendorNext == OpenWorkbook \/ SkipSheet \/ LoadSheet \/ ConcatAndReturn

VendorSpec == VendorInit /\ [][VendorNext]_vars

---------------------------------------------------------------------------
(* The categorized-company workbook: the inputs the model draws from *)

SheetFinance == <<"F", "i", "n">>
SheetTech == <<" ", "T", "e", "c", "h", " ">>
SheetLaw == <<"L", "a", "w">>

CatSheetNames == {SheetFinance, SheetTech, SheetLaw}

\* rows of five cells, columns 0..4; a narrower sheet holds their first cells
CRowHeader ==
    <<Text(<<"H", "0">>), Text(<<"H", "1">>), Text(<<"H", "2">>),
      Text(<<"H", "3">>), Text(<<"H", "4">>)>>
CRowA ==
    <<Text(<<"1">>), Text(<<"A">>), Text(<<" ", "X", NL>>), Blank, Text(<<"z">>)>>
CRowB ==
    <<Blank, Blank, Text(<<"n", "a", "n">>), Text(<<"Y">>), Blank>>
CRowW ==
    <<Text(<<"2">>), Text(<<" ", " ">>), Text(<<" ", "n", "a", "n", " ">>),
      Text(<<"B", " ", "C">>), Blank>>

CatDataRows == {CRowA, CRowB, CRowW}

\* the two rows above the data
HeaderRows == 2

\* the widths a sheet of the model may have
CatWidths == {3, 4, 5}

Narrow(rows, w) == [i \in 1..Len(rows) |-> SubSeq(rows[i], 1, w)]

\* a sheet of w columns: at most two header rows alone, or both header rows
\* and at most n data rows
CatSheets(n) ==
    {[ncols |-> w, rows |-> Narrow(hd \o d, w)] :
        w \in CatWidths,
        hd \in {<<CRowHeader, CRowHeader>>},
        d \in SeqUpTo(CatDataRows, n)}
    \cup {[ncols |-> w, rows |-> Narrow(hd, w)] :
            w \in CatWidths, hd \in {<<>>, <<CRowHeader>>}}

RECURSIVE CatRowsRead(_)
CatRowsRead(src) ==
    IF src = <<>> THEN 0
    ELSE (IF Len(src[1].rows) > HeaderRows
          THEN Len(src[1].rows) - HeaderRows ELSE 0)
         + CatRowsRead(Tail(src))

---------------------------------------------------------------------------
(* load_categorized_companies *)

\* [(1, 'National & Local'), (2, 'Local'), (3, 'SGC Target')]
Buckets == <<[col |-> 1, typ |-> "National & Local"],
             [col |-> 2, typ |-> "Local"],
             [col |-> 3, typ |-> "SGC Target"]>>

\* pd.read_excel(filepath, sheet_name=sheet, header=None): every row is data
ReadExcelNoHeader(sh) ==
    [i \in 1..Len(sh.rows) |->
        [c \in 1..Len(sh.rows[i]) |-> ReadCell(sh.rows[i][c])]]

FirstDataRow_One == 2 - 1

\* df.iloc[2:, col]: the first row index taken
FirstDataRow == 2

KeepCompany_All(company) == TRUE

\* if company and company != 'nan'
KeepCompany(company) == company # <<>> /\ company # <<"n", "a", "n">>

\* the records of one bucket of one sheet, rows r..end (0-based row index r):
\* df.iloc[2:, col].dropna().astype(str).str.strip().tolist(), then the
\* filtered appends
RECURSIVE BucketRecords(_, _, _, _, _)
BucketRecords(df, industry, pos, b, r) ==
    IF r >= Len(df) THEN <<>>
    ELSE LET cell == df[r + 1][Buckets[b].col + 1]
             company == Strip(AsStr(cell))
         IN  (IF cell.t # "blank" /\ KeepCompany(company)
              THEN <<[Industry |-> industry, Company |-> company,
                      Type |-> Buckets[b].typ,
                      src |-> <<pos, r, Buckets[b].col>>]>>
              ELSE <<>>)
             \o BucketRecords(df, industry, pos, b, r + 1)

\* the body of the for-loop for one sheet: the records appended to frames
SheetRecords(sh, sheet, pos) ==
    LET df == ReadExcelNoHeader(sh)
        industry == Strip(sheet)
    IN  BucketRecords(df, industry, pos, 1, FirstDataRow)
        \o BucketRecords(df, industry, pos, 2, FirstDataRow)
        \o BucketRecords(df, industry, pos, 3, FirstDataRow)

\* df.iloc[2:, 3] (or an earlier column) is out of bounds: IndexError
ColumnOutOfBounds(sh) == \E b \in 1..Len(Buckets) : Buckets[b].col >= sh.ncols

\* xl = pd.ExcelFile(filepath)
COpenWorkbook ==
    /\ cpc = "start"
    /\ \/ /\ \E names \in SeqUpTo(CatSheetNames, MaxCSheets) :
                /\ IsInjective(names)
                /\ csheet_names' = names
          /\ cpc' = "loop"
          /\ cerr' = "none"
       \/ /\ cpc' = "failed"
          /\ cerr' = "OpenError"
          /\ UNCHANGED csheet_names
    /\ UNCHANGED <<ci, cframes, cat_df, csource, vvars, wvars>>

\* one iteration of the loop over xl.sheet_names
CLoadSheet ==
    /\ cpc = "loop"
    /\ ci <= Len(csheet_names)
    /\ \E sh \in CatSheets(MaxCRows - CatRowsRead(csource)) :
        /\ csource' = Append(csource, sh)
        /\ \/ /\ ColumnOutOfBounds(sh)
              /\ cpc' = "failed"
              /\ cerr' = "IndexError"
              /\ UNCHANGED <<ci, cframes>>
           \/ /\ ~ColumnOutOfBounds(sh)
              /\ cframes' = cframes \o SheetRecords(sh, csheet_names[ci], ci)
              /\ ci' = ci + 1
              /\ UNCHANGED <<cpc, cerr>>
    /\ UNCHANGED <<csheet_names, cat_df, vvars, wvars>>

\* combined = pd.DataFrame(frames); the print of combined['Industry']; return
CReturn ==
    /\ cpc = "loop"
    /\ ci > Len(csheet_names)
    /\ \/ \* a table built from no records has no Industry column: KeyError
          /\ cframes = <<>>
          /\ cpc' = "failed"
          /\ cerr' = "KeyError"
          /\ UNCHANGED cat_df
       \/ /\ cframes # <<>>
          /\ cat_df' = cframes
          /\ cpc' = "done"
          /\ UNCHANGED cerr
    /\ UNCHANGED <<csheet_names, ci, cframes, csource, vvars, wvars>>

CatInit == VInit /\ CIdle /\ WIdle

CatNext == COpenWorkbook \/ CLoadSheet \/ CReturn

CatSpec == CatInit /\ [][CatNext]_vars

---------------------------------------------------------------------------
(* Properties of load_vendor_data *)

\* the sheet's trimmed name equals a trimmed skip-list entry
TrimmedSkipList == {Strip(SKIP_SHEETS[e]) : e \in 1..Len(SKIP_SHEETS)}

SkipListed(name) == Strip(name) \in TrimmedSkipList

\* the text pandas sees in a cell of a string column
SourceText(c) == AsStr(ReadCell(c))

\* the nine boilerplate phrases in lower case
LowerPhrases == {Lower(metadata_keywords[k]) : k \in 1..Len(metadata_keywords)}

\* a source row survives the metadata filter: its company text, lower-cased,
\* contains none of the lower-cased phrases
Survives(row) ==
    LET company == Lower(SourceText(row.Company))
    IN  \A ph \in LowerPhrases : ~Contains(company, ph)

\* the <<sheet position, row position>> of every surviving row of every
\* sheet that is not skip-listed
Survivors ==
    {<<p, i>> \in (1..Len(vsource)) \X (1..MaxRows + 1) :
        /\ ~SkipListed(sheet_names[p])
        /\ i <= Len(vsource[p].rows)
        /\ Survives(vsource[p].rows[i])}

SourceRow(rec) == vsource[rec.src[1]].rows[rec.src[2]]

\* C1: the returned table has exactly one row for every surviving row of
\* every sheet that is not skip-listed: as many rows as there are survivors,
\* each survivor present, nothing from a skip-listed sheet.
C1_RowsAreTheSurvivors ==
    vpc = "done" =>
        LET expected == Survivors
        IN  /\ Len(combined) = Cardinality(expected)
            /\ {combined[j].src : j \in 1..Len(combined)} = expected

C1_Witness ==
    /\ vpc = "done"
    /\ Len(combined) = 2
    /\ RowsRead(vsource) = 3
    /\ \E p \in 1..Len(sheet_names) : SkipListed(sheet_names[p])

\* C2 (as claimed): no record of the returned table has a company that
\* contains, case-insensitively, one of the nine boilerplate phrases.
C2_NoBoilerplateCompany ==
    vpc = "done" =>
        \A j \in 1..Len(combined) : \A ph \in LowerPhrases :
            ~Contains(Lower(combined[j].Company), ph)

\* C3 (as claimed): every commitment of the returned table is missing or a
\* finite number.
C3_MissingOrFinite ==
    vpc = "done" =>
        \A j \in 1..Len(combined) :
            combined[j].SDO_Commitment_Pct.k \in {"nan", "num"}

\* C4: once the workbook failed to open, or a sheet that is not skip-listed
\* was read with fewer than 7 columns, the load has failed and no table is
\* returned, whatever frames were built before.
C4_NarrowSheetFailsWholeLoad ==
    (\/ verr = "OpenError"
     \/ \E p \in 1..Len(vsource) :
            vsource[p].read /\ vsource[p].ncols < 7)
    => (vpc = "failed" /\ verr # "none" /\ combined = <<>>)

C4_Witness ==
    /\ vpc = "failed"
    /\ Len(frames) = 1 /\ Len(frames[1]) = 2
    /\ Len(vsource) = 2 /\ vsource[2].read /\ vsource[2].ncols < 7

\* C5: in the returned table rows of an earlier sheet precede rows of a later
\* sheet, and rows of one sheet are in their source order.
C5_WorkbookOrder ==
    vpc = "done" =>
        \A j, k \in 1..Len(combined) :
            j < k =>
                \/ combined[j].src[1] < combined[k].src[1]
                \/ /\ combined[j].src[1] = combined[k].src[1]
                   /\ combined[j].src[2] < combined[k].src[2]

C5_Witness ==
    /\ vpc = "done"
    /\ Len(combined) = 3
    /\ combined[1].src[1] = combined[2].src[1]
    /\ combined[2].src[1] # combined[3].src[1]

\* C6: every record's category is the trimmed name of the sheet its row came
\* from, no category is a trimmed skip-list entry, and a sheet whose trimmed
\* name is a trimmed skip-list entry is never read.
C6_CategoryIsTrimmedSheetName ==
    /\ \A p \in 1..Len(vsource) : SkipListed(sheet_names[p]) => ~vsource[p].read
    /\ vpc = "done" =>
        \A j \in 1..Len(combined) :
            /\ combined[j].Category = Strip(sheet_names[combined[j].src[1]])
            /\ combined[j].Category # <<>>
            /\ combined[j].Category[1] \notin Whitespace
            /\ combined[j].Category[Len(combined[j].Category)] \notin Whitespace
            /\ combined[j].Category \notin TrimmedSkipList

C6_Witness ==
    /\ vpc = "done"
    /\ sheet_names = <<SheetAbbrevPadded, SheetFAC>>
    /\ Len(combined) >= 1
    /\ combined[1].Category = <<"F", "A", "C">>

\* f is src with every newline replaced by one space, less leading and
\* trailing whitespace
IsCleaned(f, src) ==
    /\ \A i \in 1..Len(f) : f[i] # NL
    /\ f # <<>> => (f[1] \notin Whitespace /\ f[Len(f)] \notin Whitespace)
    /\ \E a \in 0..Len(src) :
        /\ a + Len(f) <= Len(src)
        /\ \A i \in 1..Len(f) :
              f[i] = (IF src[a + i] = NL THEN " " ELSE src[a + i])
        /\ \A i \in 1..Len(src) :
              (i <= a \/ i > a + Len(f)) => src[i] \in Whitespace

\* C7: company, contact name and contract code of every record hold no
\* newline and no leading or trailing whitespace, and are the source text
\* with each newline replaced by one space, then trimmed.
C7_TextFieldsCleaned ==
    vpc = "done" =>
        \A j \in 1..Len(combined) :
            /\ IsCleaned(combined[j].Company, SourceText(SourceRow(combined[j]).Company))
            /\ IsCleaned(combined[j].Name, SourceText(SourceRow(combined[j]).Name))
            /\ IsCleaned(combined[j].Contract_Code,
                         SourceText(SourceRow(combined[j]).Contract_Code))

C7_Witness ==
    /\ vpc = "done"
    /\ \E j \in 1..Len(combined) :
        /\ SourceRow(combined[j]) = RowClean
        /\ combined[j].Company = <<"A", " ", "B">>
        /\ combined[j].Name = <<"J", " ", " ", "K">>
        /\ combined[j].Contract_Code = <<"I", "T", " ", "1">>

---------------------------------------------------------------------------
(* Properties of load_categorized_companies *)

\* the cell at 0-based row r, column c of the p-th sheet read
SourceCell(p, r, c) == csource[p].rows[r + 1][c + 1]

\* every <<sheet, row, column>> of the sheets read
AllCells ==
    {<<p, r, c>> \in (1..Len(csource)) \X (0..HeaderRows + MaxCRows) \X (0..4) :
        r < Len(csource[p].rows) /\ c < csource[p].ncols}

InBucket(x) == x[2] >= 2 /\ x[3] \in {1, 2, 3}

\* a cell that holds something other than whitespace
NonBlank(cell) == cell.t = "text" /\ Strip(cell.s) # <<>>

\* a cell the reader does not take as a missing value and whose trimmed text
\* is neither empty nor nan
Usable(cell) ==
    /\ cell.t = "text"
    /\ cell.s \notin DefaultNA
    /\ Strip(cell.s) # <<>>
    /\ Strip(cell.s) # <<"n", "a", "n">>

TypeOfColumn(c) ==
    IF c = 1 THEN "National & Local" ELSE IF c = 2 THEN "Local" ELSE "SGC Target"

\* every record carries the trimmed sheet name, the trimmed text of its cell
\* and the type of its column
RecordsMatchCells ==
    \A j \in 1..Len(cat_df) :
        LET x == cat_df[j].src
        IN  /\ cat_df[j].Industry = Strip(csheet_names[x[1]])
            /\ cat_df[j].Company = Strip(SourceCell(x[1], x[2], x[3]).s)
            /\ cat_df[j].Type = TypeOfColumn(x[3])

\* C8 (as claimed): the table has exactly one record for every non-blank cell
\* at row >= 2 in columns 1..3 of every sheet, and no other record.
C8_OneRecordPerNonBlankCell ==
    cpc = "done" =>
        LET cells == {x \in AllCells : InBucket(x) /\ NonBlank(SourceCell(x[1], x[2], x[3]))}
        IN  /\ Len(cat_df) = Cardinality(cells)
            /\ {cat_df[j].src : j \in 1..Len(cat_df)} = cells

\* C8 (amended): the table has exactly one record (trimmed sheet name, trimmed
\* text, type of the column) for every cell at row >= 2 in columns 1..3 that
\* the reader does not take as missing and whose trimmed text is neither
\* empty nor nan, and no other record.
C8_OneRecordPerUsableCell ==
    cpc = "done" =>
        LET cells == {x \in AllCells : InBucket(x) /\ Usable(SourceCell(x[1], x[2], x[3]))}
        IN  /\ Len(cat_df) = Cardinality(cells)
            /\ {cat_df[j].src : j \in 1..Len(cat_df)} = cells
            /\ RecordsMatchCells

C8_Witness ==
    /\ cpc = "done"
    /\ Len(csource) = 2
    /\ csource[1].ncols = 5
    /\ csource[1].rows = <<CRowHeader, CRowHeader, CRowA, CRowW>>
    /\ Len(csource[2].rows) = 3
    /\ Len(cat_df) >= 4

\* C9: no record of the table has a company that is empty after trimming or
\* is the text nan.
C9_NoEmptyOrNanCompany ==
    cpc = "done" =>
        \A j \in 1..Len(cat_df) :
            /\ Strip(cat_df[j].Company) # <<>>
            /\ cat_df[j].Company # <<"n", "a", "n">>

C9_Witness ==
    /\ cpc = "done"
    /\ \E p \in 1..Len(csource) : \E r \in 1..Len(csource[p].rows) :
            csource[p].rows[r] = SubSeq(CRowW, 1, csource[p].ncols)
    /\ \E p \in 1..Len(csource) : \E r \in 1..Len(csource[p].rows) :
            csource[p].rows[r] = SubSeq(CRowB, 1, csource[p].ncols)

\* C10 (as claimed): reading a sheet of fewer than 4 columns does not make
\* the loader fail.
C10_NarrowSheetDoesNotFail ==
    (\E p \in 1..Len(csource) : csource[p].ncols < 4) => cpc # "failed"

---------------------------------------------------------------------------
(* The derived views: bq1 .. bq10 of eda_analysis.py and make_*_chart of   *)
(* dashboard.py.  A table is a sequence of rows; a row carries its index   *)
(* label idx.  A frame is a table together with the object that holds it,  *)
(* so that a column assignment is known to hit a private copy or a shared  *)
(* table.                                                                  *)

\* CATEGORY_NAMES, in the order of the dict literal
CATEGORY_NAMES ==
    << 
       <<<<"I", "T", "E">>,
         <<"I", "T", " ", "E", "q", "u", "i", "p", "m", "e", "n", "t", " ", "&", " ", "S", "e", "r", "v", "i", "c", "e", "s">>>>,
       <<<<"I", "T", "S">>,
         <<"I", "T", " ", "S", "o", "f", "t", "w", "a", "r", "e", " ", "&", " ", "S", "e", "r", "v", "i", "c", "e", "s">>>>,
       <<<<"I", "T", "T">>,
         <<"T", "e", "l", "e", "c", "o", "m", " ", "&", " ", "N", "e", "t", "w", "o", "r", "k", "i", "n", "g">>>>,
       <<<<"F", "A", "C">>,
         <<"F", "a", "c", "i", "l", "i", "t", "i", "e", "s", " ", "G", "e", "n", "e", "r", "a", "l">>>>,
       <<<<"V", "E", "H">>,
         <<"V", "e", "h", "i", "c", "l", "e", " ", "A", "c", "q", "u", "i", "s", "i", "t", "i", "o", "n", " ", "&", " ", "M", "a", "i", "n", "t", ".">>>>,
       <<<<"G", "R", "O">>,
         <<"F", "o", "o", "d", " ", "&", " ", "F", "o", "o", "d", " ", "S", "e", "r", "v", "i", "c", "e">>>>,
       <<<<"L", "N", "D">>,
         <<"F", "a", "c", "i", "l", "i", "t", "y", " ", "L", "a", "n", "d", "s", "c", "a", "p", "i", "n", "g">>>>,
       <<<<"M", "E", "D">>,
         <<"H", "e", "a", "l", "t", "h", " ", "&", " ", "M", "e", "d", "i", "c", "a", "l">>>>,
       <<<<"M", "R", "O">>,
         <<"M", "a", "i", "n", "t", "e", "n", "a", "n", "c", "e", ",", " ", "R", "e", "p", "a", "i", "r", " ", "&", " ", "O", "p", "s">>>>,
       <<<<"O", "F", "F">>,
         <<"O", "f", "f", "i", "c", "e", " ", "S", "u", "p", "p", "l", "i", "e", "s">>>>,
       <<<<"P", "R", "F">>,
         <<"P", "r", "o", "f", "e", "s", "s", "i", "o", "n", "a", "l", " ", "S", "e", "r", "v", "i", "c", "e", "s">>>>,
       <<<<"P", "S", "E">>,
         <<"P", "u", "b", "l", "i", "c", " ", "S", "a", "f", "e", "t", "y", " ", "&", " ", "S", "e", "c", "u", "r", "i", "t", "y">>>>,
       <<<<"S", "F", "C">>,
         <<"S", "u", "s", "t", "a", "i", "n", "a", "b", "l", "e", " ", "F", "a", "c", "i", "l", "i", "t", "i", "e", "s">>>>,
       <<<<"T", "R", "D">>,
         <<"T", "r", "a", "d", "e", "s", "p", "e", "r", "s", "o", "n", "s">>>>,
       <<<<"W", "M", "R">>,
         <<"W", "a", "s", "t", "e", " ", "M", "g", "m", "t", " ", "&", " ", "R", "e", "c", "y", "c", "l", "i", "n", "g">>>> >>

\* the keys of a dict
DictKeys(d) == { d[i][1] : i \in 1..Len(d) }

\* d[k], for a key of d
DictValue(d, k) == d[CHOOSE i \in 1..Len(d) : d[i][1] = k][2]

\* get_category_label(code) and get_label(code): CATEGORY_NAMES.get(code, code)
get_category_label(code) ==
    IF code \in DictKeys(CATEGORY_NAMES) THEN DictValue(CATEGORY_NAMES, code) ELSE code

\* mutation: a code that is no key is its own label
MapLabel_KeepCode(code) == Text(get_category_label(code))

\* Series.map(CATEGORY_NAMES), one value: a code that is no key maps to NaN
MapLabel(code) ==
    IF code \in DictKeys(CATEGORY_NAMES) THEN Text(DictValue(CATEGORY_NAMES, code)) ELSE Blank

\* the characters of the model in code point order
Ascii ==
    <<" ", "&", ",", "-", ".",
      "0", "1", "2", "3", "4", "5", "6", "7", "8", "9",
      "A", "B", "C", "D", "E", "F", "G", "H", "I", "J", "K", "L", "M",
      "N", "O", "P", "Q", "R", "S", "T", "U", "V", "W", "X", "Y", "Z",
      "a", "b", "c", "d", "e", "f", "g", "h", "i", "j", "k", "l", "m",
      "n", "o", "p", "q", "r", "s", "t", "u", "v", "w", "x", "y", "z">>

CharRank == [c \in {Ascii[i] : i \in 1..Len(Ascii)} |-> CHOOSE i \in 1..Len(Ascii) : Ascii[i] = c]

\* a < b for two Python strings
RECURSIVE StrLess(_, _)
StrLess(a, b) ==
    IF b = <<>> THEN FALSE
    ELSE IF a = <<>> THEN TRUE
    ELSE IF a[1] = b[1] THEN StrLess(Tail(a), Tail(b))
    ELSE CharRank[a[1]] < CharRank[b[1]]

\* a < b for two tuples of strings (the keys of a groupby on several columns)
RECURSIVE KeyLess(_, _)
KeyLess(a, b) ==
    IF b = <<>> THEN FALSE
    ELSE IF a = <<>> THEN TRUE
    ELSE IF a[1] = b[1] THEN KeyLess(Tail(a), Tail(b))
    ELSE StrLess(a[1], b[1])

\* the keys of a groupby in the order pandas lists them: sorted
SortedKeys(S) ==
    LET place == [k \in S |-> 1 + Cardinality({ o \in S : KeyLess(o, k) })]
    IN  [r \in 1..Cardinality(S) |-> CHOOSE k \in S : place[k] = r]

\* a < b, a > b and a <= b for two floats; every comparison with NaN is false
FloatLess(a, b) ==
    /\ a.k # "nan" /\ b.k # "nan"
    /\ \/ a.k = "num" /\ b.k = "num" /\ a.v < b.v
       \/ a.k = "inf" /\ a.v < 0 /\ b # a
       \/ b.k = "inf" /\ b.v > 0 /\ b # a

FloatGreater(a, b) == FloatLess(b, a)

FloatLeq(a, b) == a.k # "nan" /\ b.k # "nan" /\ ~FloatLess(b, a)

---------------------------------------------------------------------------
(* The loaded tables the views are computed from *)

MaxVendorRows == 27   \* rows of the vendor table
MaxCatRows == 4       \* rows of the categorized-company table
MaxSessionRows == 3   \* rows of the vendor table where calls follow one another
MaxRequests == 2      \* chart requests the dashboard serves at the same time
MaxRuns == 2          \* runs of the scripts, one after another

ITE == <<"I", "T", "E">>
ITS == <<"I", "T", "S">>
ITT == <<"I", "T", "T">>
FAC == <<"F", "A", "C">>
XYZ == <<"X", "Y", "Z">>     \* a sheet name that is no key of CATEGORY_NAMES

\* the list ['ITE', 'ITS', 'ITT']
IT_CATS == <<ITE, ITS, ITT>>

TwoDigits(i) == <<Digits[(i \div 10) + 1], Digits[(i % 10) + 1]>>
CompanyName(i) == <<"C", "o", " ">> \o TwoDigits(i)
\* the second code is 15 characters long, the third is 16
CodeName(i) ==
    <<"K">> \o TwoDigits(i)
        \o (IF i = 2 THEN [j \in 1..12 |-> "x"]
            ELSE IF i = 3 THEN [j \in 1..13 |-> "x"] ELSE <<>>)

\* The vendor tables are drawn from profiles: which category, company,
\* contract code and commitment the i-th row has.
\*   cat:  "one" every row ITE; "cycle" ITE, ITS, ITT in turn;
\*         "blocks" twelve rows FAC, four rows ITS, the rest XYZ;
\*         "alien" ITE, XYZ, ITS in turn
\*   m, q: the number of different companies and contract codes
\*   sdo:  "half" every commitment 0.5; "mixed" missing, zero, negative,
\*         in range, over 1.0 and infinite in turn; "rising" 0.05 * i;
\*         "falling" 1.40 - 0.05 * i; "over" 1.5, missing and 0.5 in turn
Profiles ==
    { [cat |-> "one",    m |-> 17, q |-> 27, sdo |-> "half"],
      [cat |-> "cycle",  m |-> 4,  q |-> 3,  sdo |-> "mixed"],
      [cat |-> "cycle",  m |-> 11, q |-> 27, sdo |-> "rising"],
      [cat |-> "blocks", m |-> 17, q |-> 3,  sdo |-> "rising"],
      [cat |-> "blocks", m |-> 4,  q |-> 27, sdo |-> "mixed"],
      [cat |-> "one",    m |-> 11, q |-> 3,  sdo |-> "falling"],
      [cat |-> "cycle",  m |-> 17, q |-> 27, sdo |-> "half"],
      [cat |-> "blocks", m |-> 17, q |-> 22, sdo |-> "half"] }

\* the profiles of the small tables
SmallProfiles ==
    { [cat |-> "alien", m |-> 2, q |-> 2, sdo |-> "over"],
      [cat |-> "cycle", m |-> 1, q |-> 3, sdo |-> "over"],
      [cat |-> "one",   m |-> 2, q |-> 1, sdo |-> "half"] }

MixedSdo == <<NaN, Float(0), Float(-10), Float(50), Float(100), Float(150), Inf(1)>>

CategoryAt(p, i) ==
    IF p.cat = "one" THEN ITE
    ELSE IF p.cat = "cycle" THEN IT_CATS[((i - 1) % 3) + 1]
    ELSE IF p.cat = "alien" THEN <<ITE, XYZ, ITS>>[((i - 1) % 3) + 1]
    ELSE IF i <= 12 THEN FAC ELSE IF i <= 16 THEN ITS ELSE XYZ

SdoAt(p, i) ==
    IF p.sdo = "half" THEN Float(50)
    ELSE IF p.sdo = "mixed" THEN MixedSdo[((i - 1) % Len(MixedSdo)) + 1]
    ELSE IF p.sdo = "rising" THEN Float(5 * i)
    ELSE IF p.sdo = "over" THEN <<Float(150), NaN, Float(50)>>[((i - 1) % 3) + 1]
    ELSE Float(140 - 5 * i)

\* the table load_vendor_data of dashboard.py returns: the cleaned columns
\* the views read, Category_Label among them, under the index concat gives
VendorTable(p, n) ==
    [i \in 1..n |->
        [idx |-> i,
         Contract_Code |-> CodeName(((i - 1) % p.q) + 1),
         Company |-> CompanyName(((i - 1) % p.m) + 1),
         Category |-> CategoryAt(p, i),
         SDO_Pct |-> SdoAt(p, i),
         Category_Label |-> MapLabel(CategoryAt(p, i))]]

Industries == <<SheetFinance, SheetTech>>

\* the table load_categorized_companies returns: n records, the types in
\* turn from the one after the k-th
CatTable(k, n) ==
    [i \in 1..n |->
        [idx |-> i,
         Industry |-> Industries[((i - 1) % 2) + 1],
         Company |-> CompanyName(i),
         Type |-> Buckets[((i - 1 + k) % 3) + 1].typ]]

---------------------------------------------------------------------------
(* pandas, as far as the views use it *)

\* a frame: the object that holds the table, and the table
Frame(obj, rows) == [obj |-> obj, rows |-> rows]

\* the object of a frame no shared name is bound to
Own == "own"

\* DataFrame.copy(): a new object with the same rows
Copy(f) == Frame(Own, f.rows)

\* df[mask], boolean indexing: a new object with the rows the mask keeps
Select(f, Keep(_)) == Frame(Own, SelectSeq(f.rows, Keep))

\* df.dropna(subset=[the commitment column]): a new object
Dropna(f) == Select(f, LAMBDA r : r.SDO_Pct.k # "nan")

\* series > 0, one value
Positive(x) == FloatGreater(x, Float(0))

\* the upper bound of the capped views, 1.0
CapUpper == 100

\* mutation: the bound is a lower one
Clip_Lower(x) == IF FloatLess(x, Float(CapUpper)) THEN Float(CapUpper) ELSE x

\* Series.clip(upper=1.0), one value
Clip(x) == IF FloatGreater(x, Float(CapUpper)) THEN Float(CapUpper) ELSE x

\* df[col] = values: the rows of f with column col set
SetColumn(f, col, Val(_)) ==
    [f EXCEPT !.rows =
        [i \in DOMAIN f.rows |->
            [c \in DOMAIN f.rows[i] \cup {col} |->
                IF c = col THEN Val(f.rows[i]) ELSE f.rows[i][c]]]]

\* the rows of a table after an assignment through f has hit it: the rows f
\* holds, found by their index label, have the columns of f as f has them
WriteThrough(rows, f) ==
    [i \in DOMAIN rows |->
        IF \E j \in DOMAIN f.rows : f.rows[j].idx = rows[i].idx
        THEN LET new == f.rows[CHOOSE j \in DOMAIN f.rows : f.rows[j].idx = rows[i].idx]
             IN  [c \in DOMAIN rows[i] \cup DOMAIN new |->
                     IF c \in DOMAIN new THEN new[c] ELSE rows[i][c]]
        ELSE rows[i]]

\* mutation: every assignment hits vendor_df
Store_IntoVendor(h, f) == [h EXCEPT !.vendor_df = WriteThrough(@, f)]

\* mutation: every assignment hits vendor_with_sdo
Store_IntoDerived(h, f) == [h EXCEPT !.vendor_with_sdo = WriteThrough(@, f)]

\* the shared tables after a column assignment made f what it is: the
\* assignment lands in the object that holds f
Store(h, f) ==
    IF f.obj = Own THEN h ELSE [h EXCEPT ![f.obj] = WriteThrough(@, f)]

Reverse(s) == [i \in 1..Len(s) |-> s[Len(s) + 1 - i]]

\* The orders a sort may leave equal keys in.  sort_values is called without
\* kind=, so numpy's quicksort runs, which does not promise to keep equal
\* keys in their order; the model takes two of the orders it can produce.
TieOrders == {"kept", "reversed"}

\* sort_values: s in the order Less gives, equal keys as tie says
SortValues(s, Less(_, _), tie) ==
    LET b == IF tie = "kept" THEN s ELSE Reverse(s)
        n == Len(b)
        rank == [i \in 1..n |->
                    1 + Cardinality({ j \in 1..n :
                            \/ Less(b[j], b[i])
                            \/ ~Less(b[i], b[j]) /\ j < i })]
    IN  [r \in 1..n |-> b[CHOOSE i \in 1..n : rank[i] = r]]

\* mutation: one row more
HeadRows_OneMore(s, n) == SubSeq(s, 1, IF Len(s) < n + 1 THEN Len(s) ELSE n + 1)

\* .head(n) and .tail(n)
HeadRows(s, n) == SubSeq(s, 1, IF Len(s) < n THEN Len(s) ELSE n)
TailRows(s, n) == SubSeq(s, IF Len(s) < n THEN 1 ELSE Len(s) - n + 1, Len(s))

\* groupby(...): the keys of the rows whose key is present, sorted
GroupKeys(rows, Present(_), Key(_)) ==
    SortedKeys({ Key(rows[i]) : i \in { j \in 1..Len(rows) : Present(rows[j]) } })

\* the rows of one group, in table order
Group(rows, Present(_), Key(_), k) ==
    SelectSeq(rows, LAMBDA r : Present(r) /\ Key(r) = k)

\* the maximum of a non-empty sequence of floats
MaxOf(xs) == xs[CHOOSE i \in 1..Len(xs) : \A j \in 1..Len(xs) : ~FloatLess(xs[i], xs[j])]

\* .nunique() of a column over rows
Nunique(rows, Col(_)) == Cardinality({ Col(rows[i]) : i \in 1..Len(rows) })

---------------------------------------------------------------------------
(* dashboard.py, module level: the tables every chart function shares *)

\* vendor_with_sdo: dropna, copy, keep the positive, add SDO_Capped
Precompute(h) ==
    LET f0 == Copy(Dropna(Frame("vendor_df", h.vendor_df)))
        f1 == Select(f0, LAMBDA r : Positive(r.SDO_Pct))
        f2 == SetColumn(f1, "SDO_Capped", LAMBDA r : Clip(r.SDO_Pct))
        h2 == Store(h, f2)
    IN  [h2 EXCEPT !.vendor_with_sdo = f2.rows]

\* the loaders have returned and the derived table is built
LoadTables(vendor, cat) ==
    Precompute([vendor_df |-> vendor, cat_df |-> cat, vendor_with_sdo |-> <<>>])

---------------------------------------------------------------------------
(* The view functions.  Each takes the shared tables h and gives the       *)
(* result it returns (out) and the shared tables it leaves behind (h).     *)
(* pre is the table right before sort_values, kept for the claims.         *)

RECURSIVE SumSeq(_)
SumSeq(s) == IF s = <<>> THEN 0 ELSE Head(s) + SumSeq(Tail(s))

Column(rows, Col(_)) == [i \in 1..Len(rows) |-> Col(rows[i])]

InList(x, list) == \E i \in 1..Len(list) : list[i] = x

Always(r) == TRUE

\* descending and ascending order of a float column, for sort_values
MoreSdoMax(a, b) == FloatLess(b.SDO_Max, a.SDO_Max)
LessSdoMax(a, b) == FloatLess(a.SDO_Max, b.SDO_Max)

\* ascending order of the mean Sum / Count, Count > 0
LessAvg(a, b) == a.Sum * b.Count < b.Sum * a.Count

\* descending order of a count
MoreCount(a, b) == b.Count < a.Count

\* eda_analysis.py, bq1_it_sector_top_sdo: the maximum of the raw commitment
bq1_it_sector_top_sdo(h, tie) ==
    LET it_df == Copy(Select(Frame("vendor_df", h.vendor_df),
                             LAMBDA r : InList(r.Category, IT_CATS)))
        it_with_sdo == Select(Dropna(it_df), LAMBDA r : Positive(r.SDO_Pct))
        key(r) == <<r.Company, r.Category>>
        keys == GroupKeys(it_with_sdo.rows, Always, key)
        company_sdo ==
            [g \in 1..Len(keys) |->
                LET rows == Group(it_with_sdo.rows, Always, key, keys[g])
                IN  [Company |-> keys[g][1], Category |-> keys[g][2],
                     SDO_Max |-> MaxOf(Column(rows, LAMBDA r : r.SDO_Pct)),
                     Contract_Count |-> Nunique(rows, LAMBDA r : r.Contract_Code)]]
        sorted == SortValues(company_sdo, MoreSdoMax, tie)
    IN  [out |-> [fn |-> "bq1", pre |-> company_sdo, n |-> 15,
                  rows |-> HeadRows(sorted, 15)],
         h |-> h]

\* dashboard.py, make_bq1_chart(it_filter): the maximum of SDO_Capped
make_bq1_chart(h, it_filter, tie) ==
    LET it_cats == IF it_filter = <<"A", "l", "l">> THEN IT_CATS ELSE <<it_filter>>
        df == Copy(Select(Frame("vendor_with_sdo", h.vendor_with_sdo),
                          LAMBDA r : InList(r.Category, it_cats)))
        present(r) == r.Category_Label.t = "text"
        key(r) == <<r.Company, r.Category_Label.s>>
        keys == GroupKeys(df.rows, present, key)
        grouped ==
            [g \in 1..Len(keys) |->
                LET rows == Group(df.rows, present, key, keys[g])
                IN  [Company |-> keys[g][1], Category_Label |-> keys[g][2],
                     SDO_Max |-> MaxOf(Column(rows, LAMBDA r : r.SDO_Capped))]]
        sorted == SortValues(grouped, LessSdoMax, tie)
    IN  [out |-> [fn |-> "make_bq1", arg |-> it_filter, pre |-> grouped, n |-> 15,
                  rows |-> TailRows(sorted, 15)],
         h |-> h]

\* mean and count of a float column per group, Sum / Count, under the
\* fresh index reset_index() gives
GroupStats(rows, Present(_), Key(_), Val(_)) ==
    LET keys == GroupKeys(rows, Present, Key)
    IN  [g \in 1..Len(keys) |->
            LET grp == Group(rows, Present, Key, keys[g])
            IN  [idx |-> g, Key |-> keys[g][1],
                 Sum |-> SumSeq(Column(grp, LAMBDA r : Val(r).v)),
                 Count |-> Len(grp)]]

\* eda_analysis.py, bq2_avg_sdo_by_category: the commitment column of the
\* copy is overwritten with the capped values
bq2_avg_sdo_by_category(h, tie) ==
    LET sdo_df == Select(Dropna(Frame("vendor_df", h.vendor_df)),
                         LAMBDA r : Positive(r.SDO_Pct))
        sdo_capped == SetColumn(Copy(sdo_df), "SDO_Pct", LAMBDA r : Clip(r.SDO_Pct))
        cat_stats == GroupStats(sdo_capped.rows, Always,
                                LAMBDA r : <<r.Category>>, LAMBDA r : r.SDO_Pct)
        sorted == SortValues(cat_stats, LessAvg, tie)
        labelled == SetColumn(Frame(Own, sorted), "Label",
                              LAMBDA r : get_category_label(r.Key))
    IN  [out |-> [fn |-> "bq2", frame |-> sdo_capped.rows, source |-> sdo_df.rows,
                  pre |-> cat_stats, rows |-> labelled.rows],
         h |-> Store(Store(h, sdo_capped), labelled)]

\* dashboard.py, make_bq2_chart
make_bq2_chart(h, tie) ==
    LET df == Copy(Frame("vendor_with_sdo", h.vendor_with_sdo))
        stats == GroupStats(df.rows, LAMBDA r : r.Category_Label.t = "text",
                            LAMBDA r : <<r.Category_Label.s>>, LAMBDA r : r.SDO_Capped)
    IN  [out |-> [fn |-> "make_bq2", pre |-> stats,
                  rows |-> SortValues(stats, LessAvg, tie)],
         h |-> h]

\* groupby('Contract_Code')['Company'].nunique(), codes of at most 15
\* characters, sort_values(ascending=False).head(n)
TopCodes_AnyLength(vendor, n, tie) ==
    LET key(r) == <<r.Contract_Code>>
        keys == GroupKeys(vendor, Always, key)
        codes == [g \in 1..Len(keys) |->
                    [Code |-> keys[g][1],
                     Count |-> Nunique(Group(vendor, Always, key, keys[g]),
                                       LAMBDA r : r.Company)]]
    IN  [pre |-> codes, rows |-> HeadRows(SortValues(codes, MoreCount, tie), n)]

TopCodes(vendor, n, tie) ==
    LET key(r) == <<r.Contract_Code>>
        keys == GroupKeys(vendor, Always, key)
        codes == [g \in 1..Len(keys) |->
                    [Code |-> keys[g][1],
                     Count |-> Nunique(Group(vendor, Always, key, keys[g]),
                                       LAMBDA r : r.Company)]]
        short == SelectSeq(codes, LAMBDA c : Len(c.Code) <= 15)
    IN  [pre |-> short, rows |-> HeadRows(SortValues(short, MoreCount, tie), n)]

\* eda_analysis.py, bq4_contract_subcategories: the top 25
bq4_contract_subcategories(h, tie) ==
    LET t == TopCodes(h.vendor_df, 25, tie)
    IN  [out |-> [fn |-> "bq4", pre |-> t.pre, n |-> 25, rows |-> t.rows], h |-> h]

\* dashboard.py, make_bq4_chart: the top 20
make_bq4_chart(h, tie) ==
    LET t == TopCodes(h.vendor_df, 20, tie)
    IN  [out |-> [fn |-> "make_bq4", pre |-> t.pre, n |-> 20, rows |-> t.rows], h |-> h]

\* the least number of eligible rows of a category the box plot shows
MinCategoryRows == 10

\* mutation: the threshold is exclusive
ValidCats_Above(rows, t) ==
    LET keys == GroupKeys(rows, Always, LAMBDA r : <<r.Category>>)
    IN  SelectSeq([g \in 1..Len(keys) |-> keys[g][1]],
                  LAMBDA c : Len(SelectSeq(rows, LAMBDA r : r.Category = c)) > t)

\* cat_counts[cat_counts >= t].index.tolist(), cat_counts the size of every
\* category of rows
ValidCats(rows, t) ==
    LET keys == GroupKeys(rows, Always, LAMBDA r : <<r.Category>>)
        cat_counts == [g \in 1..Len(keys) |->
                          [Category |-> keys[g][1],
                           Count |-> Len(SelectSeq(rows, LAMBDA r : r.Category = keys[g][1]))]]
    IN  Column(SelectSeq(cat_counts, LAMBDA c : c.Count >= t), LAMBDA c : c.Category)

\* eda_analysis.py, bq6_sdo_distribution_outliers: the rows the box plot is
\* drawn from
bq6_sdo_distribution_outliers(h) ==
    LET sdo_df0 == Copy(Dropna(Frame("vendor_df", h.vendor_df)))
        sdo_df1 == Select(sdo_df0, LAMBDA r : Positive(r.SDO_Pct))
        sdo_df == SetColumn(sdo_df1, "SDO_Capped", LAMBDA r : Clip(r.SDO_Pct))
        valid_cats == ValidCats(sdo_df.rows, MinCategoryRows)
        sdo_valid == Select(sdo_df, LAMBDA r : InList(r.Category, valid_cats))
        plot_data == SetColumn(Copy(sdo_valid), "Label",
                               LAMBDA r : get_category_label(r.Category))
    IN  [out |-> [fn |-> "bq6", cats |-> valid_cats, eligible |-> sdo_df.rows,
                  rows |-> plot_data.rows],
         h |-> Store(Store(h, sdo_df), plot_data)]

\* dashboard.py, make_bq6_chart
make_bq6_chart(h) ==
    LET shared == Frame("vendor_with_sdo", h.vendor_with_sdo)
        valid_cats == ValidCats(shared.rows, MinCategoryRows)
        df == Copy(Select(shared, LAMBDA r : InList(r.Category, valid_cats)))
    IN  [out |-> [fn |-> "make_bq6", cats |-> valid_cats, eligible |-> shared.rows,
                  rows |-> df.rows],
         h |-> h]

\* groupby(key).apply(...): per group the rows with and without a commitment
Coverage(vendor, Present(_), Key(_)) ==
    LET keys == GroupKeys(vendor, Present, Key)
    IN  [g \in 1..Len(keys) |->
            LET grp == Group(vendor, Present, Key, keys[g])
            IN  [idx |-> g, Key |-> keys[g][1],
                 Has_SDO |-> Len(SelectSeq(grp, LAMBDA r : r.SDO_Pct.k # "nan")),
                 No_SDO |-> Len(SelectSeq(grp, LAMBDA r : r.SDO_Pct.k = "nan")),
                 Total |-> Len(grp)]]

\* ascending order of the coverage rate Has_SDO / Total, Total > 0
LessCoverage(a, b) == a.Has_SDO * b.Total < b.Has_SDO * a.Total

\* eda_analysis.py, bq7_sdo_coverage_rate: grouped by Category, sorted by the
\* coverage rate
bq7_sdo_coverage_rate(h, tie) ==
    LET coverage == Frame(Own, Coverage(h.vendor_df, Always, LAMBDA r : <<r.Category>>))
        labelled == SetColumn(coverage, "Label", LAMBDA r : get_category_label(r.Key))
    IN  [out |-> [fn |-> "bq7", pre |-> labelled.rows,
                  rows |-> SortValues(labelled.rows, LessCoverage, tie)],
         h |-> Store(h, labelled)]

\* dashboard.py, make_bq7_chart: grouped by Category_Label
make_bq7_chart(h) ==
    [out |-> [fn |-> "make_bq7",
              rows |-> Coverage(h.vendor_df, LAMBDA r : r.Category_Label.t = "text",
                                LAMBDA r : <<r.Category_Label.s>>)],
     h |-> h]

\* it_df.groupby('Company')['Contract_Code'].nunique().sort_values(ascending=False)
CompanyContracts(it_rows, tie) ==
    LET key(r) == <<r.Company>>
        keys == GroupKeys(it_rows, Always, key)
        counts == [g \in 1..Len(keys) |->
                     [Company |-> keys[g][1],
                      Count |-> Nunique(Group(it_rows, Always, key, keys[g]),
                                        LAMBDA r : r.Contract_Code)]]
    IN  [pre |-> counts, sorted |-> SortValues(counts, MoreCount, tie)]

Counts(rows) == Column(rows, LAMBDA r : r.Count)

\* f'Other ({len(company_contracts)-10} companies)': the number in the label
OtherCompanies(company_contracts) == Len(company_contracts) - 10

\* eda_analysis.py, bq10_it_vendor_concentration: rest = total - top10.sum()
bq10_it_vendor_concentration(h, tie) ==
    LET it_df == Copy(Select(Frame("vendor_df", h.vendor_df),
                             LAMBDA r : InList(r.Category, IT_CATS)))
        company_contracts == CompanyContracts(it_df.rows, tie)
        total_contracts == SumSeq(Counts(company_contracts.sorted))
        top10 == HeadRows(company_contracts.sorted, 10)
    IN  [out |-> [fn |-> "bq10", pre |-> company_contracts.pre, n |-> 10,
                  all |-> company_contracts.sorted, rows |-> top10,
                  rest |-> total_contracts - SumSeq(Counts(top10)),
                  other |-> OtherCompanies(company_contracts.sorted)],
         h |-> h]

\* dashboard.py, make_bq10_chart: rest = company_counts.iloc[10:].sum()
make_bq10_chart(h, tie) ==
    LET it_df == Select(Frame("vendor_df", h.vendor_df),
                        LAMBDA r : InList(r.Category, IT_CATS))
        company_counts == CompanyContracts(it_df.rows, tie)
        top10 == HeadRows(company_counts.sorted, 10)
    IN  [out |-> [fn |-> "make_bq10", pre |-> company_counts.pre, n |-> 10,
                  all |-> company_counts.sorted, rows |-> top10,
                  other |-> OtherCompanies(company_counts.sorted),
                  rest |-> SumSeq(Counts(SubSeq(company_counts.sorted, 11,
                                                Len(company_counts.sorted))))],
         h |-> h]

\* cat_df.groupby(['Industry', 'Type']).size().unstack(fill_value=0), the
\* pivot of bq9_industry_diversity_heatmap and make_bq9_chart
Pivot(cat) ==
    LET keys == GroupKeys(cat, Always, LAMBDA r : <<r.Industry>>)
        types == { cat[i].Type : i \in 1..Len(cat) }
    IN  [g \in 1..Len(keys) |->
            [Industry |-> keys[g][1],
             Counts |-> [t \in types |->
                           Len(SelectSeq(cat, LAMBDA r : r.Industry = keys[g][1] /\ r.Type = t))]]]

\* groupby(['Industry', 'Type']) on the table pd.DataFrame([]) of a workbook
\* without records: the table has no column Industry
GroupbyError(cat) == IF cat = <<>> THEN "KeyError" ELSE "none"

bq9_industry_diversity_heatmap(h) ==
    [out |-> [fn |-> "bq9", rows |-> Pivot(h.cat_df), error |-> GroupbyError(h.cat_df)],
     h |-> h]

make_bq9_chart(h) ==
    [out |-> [fn |-> "make_bq9", rows |-> Pivot(h.cat_df),
              error |-> GroupbyError(h.cat_df)],
     h |-> h]

\* the column bq5_national_vs_local sorts the pivot by
NATIONAL_LOCAL == "National & Local"

\* eda_analysis.py, bq5_national_vs_local: the pivot, sorted by the column
\* 'National & Local'; KeyError when the pivot has no such column
bq5_national_vs_local(h, tie) ==
    LET pivot == Pivot(h.cat_df)
        types == { h.cat_df[i].Type : i \in 1..Len(h.cat_df) }
        less(a, b) == a.Counts[NATIONAL_LOCAL] < b.Counts[NATIONAL_LOCAL]
    IN  [out |-> IF NATIONAL_LOCAL \in types
                 THEN [fn |-> "bq5", rows |-> SortValues(pivot, less, tie),
                       error |-> "none"]
                 ELSE [fn |-> "bq5", rows |-> <<>>, error |-> "KeyError"],
         h |-> h]

---------------------------------------------------------------------------
(* The other chart functions of dashboard.py *)

\* make_bq3_chart: groupby('Category_Label')['Company'].nunique()
make_bq3_chart(h) ==
    LET present(r) == r.Category_Label.t = "text"
        key(r) == <<r.Category_Label.s>>
        keys == GroupKeys(h.vendor_df, present, key)
    IN  [out |-> [fn |-> "make_bq3",
                  rows |-> [g \in 1..Len(keys) |->
                              [Category |-> keys[g][1],
                               Vendors |-> Nunique(Group(h.vendor_df, present, key, keys[g]),
                                                   LAMBDA r : r.Company)]]],
         h |-> h]

\* the three values of Type, as text
TypeText(t) ==
    IF t = "National & Local"
    THEN <<"N", "a", "t", "i", "o", "n", "a", "l", " ", "&", " ", "L", "o", "c", "a", "l">>
    ELSE IF t = "Local" THEN <<"L", "o", "c", "a", "l">>
    ELSE <<"S", "G", "C", " ", "T", "a", "r", "g", "e", "t">>

\* make_bq5_chart: cat_df.groupby(['Industry', 'Type']).size().reset_index(name='Count')
make_bq5_chart(h) ==
    LET key(r) == <<r.Industry, TypeText(r.Type)>>
        keys == GroupKeys(h.cat_df, Always, key)
    IN  [out |-> [fn |-> "make_bq5", error |-> GroupbyError(h.cat_df),
                  rows |-> [g \in 1..Len(keys) |->
                              [Industry |-> keys[g][1], Type |-> keys[g][2],
                               Count |-> Len(Group(h.cat_df, Always, key, keys[g]))]]],
         h |-> h]

\* stats.pearsonr, np.polyfit of eda_analysis.py: a coefficient and a line
\* for any points (not a number when all the x are the same)
Pearsonr(xs) == [error |-> "none", corr |-> "computed"]

\* scipy.stats.linregress of dashboard.py: raises ValueError when all the x
\* values are identical
Linregress(xs) ==
    IF \A i, j \in 1..Len(xs) : xs[i] = xs[j]
    THEN [error |-> "ValueError", corr |-> "absent"]
    ELSE [error |-> "none", corr |-> "computed"]

\* if len(cat_stats) > 2: the coefficient is computed
HasCorrelation(cat_stats) == Len(cat_stats) > 2

\* if len(cat_stats) > 2: the regression line is drawn, labelled with corr
DrawsRegression(cat_stats) == Len(cat_stats) > 2

\* eda_analysis.py, bq8_vendor_count_vs_sdo: the rows with a commitment
\* above 0 and at most 1.0, per category the number of companies and the
\* mean Sum / Count
bq8_vendor_count_vs_sdo(h) ==
    LET sdo_df == Select(Select(Dropna(Frame("vendor_df", h.vendor_df)),
                                LAMBDA r : Positive(r.SDO_Pct)),
                         LAMBDA r : FloatLeq(r.SDO_Pct, Float(CapUpper)))
        key(r) == <<r.Category>>
        keys == GroupKeys(sdo_df.rows, Always, key)
        stats0 == [g \in 1..Len(keys) |->
                     LET grp == Group(sdo_df.rows, Always, key, keys[g])
                     IN  [idx |-> g, Category |-> keys[g][1],
                          Vendors |-> Nunique(grp, LAMBDA r : r.Company),
                          Sum |-> SumSeq(Column(grp, LAMBDA r : r.SDO_Pct.v)),
                          Count |-> Len(grp)]]
        cat_stats == SetColumn(Frame(Own, stats0), "Label",
                               LAMBDA r : get_category_label(r.Category))
        p == IF HasCorrelation(cat_stats.rows)
             THEN Pearsonr(Column(cat_stats.rows, LAMBDA r : r.Vendors))
             ELSE [error |-> "none", corr |-> "absent"]
        drawn == DrawsRegression(cat_stats.rows)
    IN  [out |-> [fn |-> "bq8", used |-> sdo_df.rows, rows |-> cat_stats.rows,
                  corr |-> p.corr,
                  line |-> IF drawn /\ p.corr = "computed" THEN "drawn" ELSE "omitted",
                  error |-> IF drawn /\ p.corr = "absent" THEN "NameError" ELSE p.error],
         h |-> Store(h, cat_stats)]

\* make_bq8_chart: the rows with SDO_Capped <= 1.0, per category the number
\* of companies and the mean Sum / Count; linregress and the trend line for
\* more than two categories
make_bq8_chart(h) ==
    LET df == Copy(Select(Frame("vendor_with_sdo", h.vendor_with_sdo),
                          LAMBDA r : FloatLeq(r.SDO_Capped, Float(CapUpper))))
        key(r) == <<r.Category>>
        keys == GroupKeys(df.rows, Always, key)
        stats0 == [g \in 1..Len(keys) |->
                     LET grp == Group(df.rows, Always, key, keys[g])
                     IN  [idx |-> g, Category |-> keys[g][1],
                          Vendors |-> Nunique(grp, LAMBDA r : r.Company),
                          Sum |-> SumSeq(Column(grp, LAMBDA r : r.SDO_Capped.v)),
                          Count |-> Len(grp)]]
        stats == SetColumn(Frame(Own, stats0), "Label", LAMBDA r : MapLabel(r.Category))
        p == IF Len(stats.rows) > 2
             THEN Linregress(Column(stats.rows, LAMBDA r : r.Vendors))
             ELSE [error |-> "none", corr |-> "absent"]
    IN  [out |-> [fn |-> "make_bq8", used |-> df.rows, rows |-> stats.rows,
                  corr |-> p.corr,
                  line |-> IF p.corr = "computed" THEN "drawn" ELSE "omitted",
                  error |-> p.error],
         h |-> Store(h, stats)]

\* make_sdo_histogram: the column SDO_Capped of the shared table
make_sdo_histogram(h) ==
    [out |-> [fn |-> "make_sdo_histogram",
              rows |-> Column(h.vendor_with_sdo, LAMBDA r : r.SDO_Capped)],
     h |-> h]

\* twice the median of a non-empty sequence of numbers
MedianTwice(xs) ==
    LET s == SortValues(xs, LAMBDA a, b : a < b, "kept")
        n == Len(s)
    IN  IF n % 2 = 1 THEN 2 * s[(n + 1) \div 2] ELSE s[n \div 2] + s[(n \div 2) + 1]

\* a float as a fraction n / d, or not a number
Frac(n, d) == [k |-> "num", n |-> n, d |-> d]
NoValue == [k |-> "nan", n |-> 0, d |-> 1]

\* a > b on floats: False when either is not a number
FracGreater(a, b) == a.k = "num" /\ b.k = "num" /\ a.n * b.d > b.n * a.d

\* Python's max(...) of a generator: the first value, replaced by a later
\* one only if that one compares greater
RECURSIVE PyMaxFrom(_, _, _)
PyMaxFrom(xs, i, m) ==
    IF i > Len(xs) THEN m
    ELSE PyMaxFrom(xs, i + 1, IF FracGreater(xs[i], m) THEN xs[i] ELSE m)

PyMax(xs) == PyMaxFrom(xs, 2, xs[1])

\* v / mx * 100 if mx > 0 else 0
Normalize(v, mx) ==
    IF FracGreater(mx, Frac(0, 1))
    THEN (IF v.k = "nan" THEN NoValue ELSE Frac(100 * v.n * mx.d, v.d * mx.n))
    ELSE Frac(0, 1)

\* the metrics dict of one category, in the order of categories_radar:
\* 'Avg SDO', 'Median SDO', 'Max SDO', 'Vendor Count', 'Coverage Rate'
RadarMetrics(h, cat) ==
    LET df_cat == SelectSeq(h.vendor_with_sdo, LAMBDA r : r.Category = cat)
        capped == Column(df_cat, LAMBDA r : r.SDO_Capped.v)
        all == SelectSeq(h.vendor_df, LAMBDA r : r.Category = cat)
    IN  << IF capped = <<>> THEN NoValue ELSE Frac(100 * SumSeq(capped), Len(capped)),
           IF capped = <<>> THEN NoValue ELSE Frac(100 * MedianTwice(capped), 2),
           IF capped = <<>> THEN NoValue
           ELSE Frac(100 * MaxOf(Column(df_cat, LAMBDA r : r.SDO_Capped)).v, 1),
           Frac(Len(df_cat), 1),
           IF all = <<>> THEN NoValue
           ELSE Frac(100 * Len(SelectSeq(all, LAMBDA r : r.SDO_Pct.k # "nan")), Len(all)) >>

\* normalized, without the closing point appended for the polygon
RadarNormalized(metrics) ==
    [c \in 1..Len(metrics) |->
        [m \in 1..5 |->
            Normalize(metrics[c][m], PyMax([e \in 1..Len(metrics) |-> metrics[e][m]]))]]

\* make_it_radar: the five metrics of the three IT categories; a category
\* without eligible rows has no mean, median or maximum, one without rows
\* has no coverage rate
make_it_radar(h) ==
    [out |-> [fn |-> "make_it_radar",
              metrics |-> [c \in 1..Len(IT_CATS) |-> RadarMetrics(h, IT_CATS[c])],
              normalized |->
                  RadarNormalized([c \in 1..Len(IT_CATS) |-> RadarMetrics(h, IT_CATS[c])]),
              rows |-> [c \in 1..Len(IT_CATS) |->
                 LET df_cat == SelectSeq(h.vendor_with_sdo, LAMBDA r : r.Category = IT_CATS[c])
                     capped == Column(df_cat, LAMBDA r : r.SDO_Capped.v)
                     all == SelectSeq(h.vendor_df, LAMBDA r : r.Category = IT_CATS[c])
                 IN  [Category |-> DictValue(CATEGORY_NAMES, IT_CATS[c]),
                      Sum |-> SumSeq(capped),
                      Median_x2 |-> IF capped = <<>> THEN NaN ELSE Float(MedianTwice(capped)),
                      Max |-> IF capped = <<>> THEN NaN
                              ELSE MaxOf(Column(df_cat, LAMBDA r : r.SDO_Capped)),
                      Vendor_Count |-> Len(df_cat),
                      Has_SDO |-> Len(SelectSeq(all, LAMBDA r : r.SDO_Pct.k # "nan")),
                      Total |-> Len(all)]]],
     h |-> h]

---------------------------------------------------------------------------
(* The views, each called on freshly loaded tables *)

IT_FILTERS == {<<"A", "l", "l">>, ITE, ITS, ITT}

\* a view function is called and returns: its result is kept, the shared
\* tables are what it left behind
Call(r) ==
    /\ view' = r.out
    /\ tables' = r.h
    /\ UNCHANGED <<loaded, reqs, run, files, vvars, cvars>>

\* the first call on freshly loaded tables
Return(r) == view.fn = "none" /\ Call(r)

Bq1 == \E tie \in TieOrders : Return(bq1_it_sector_top_sdo(tables, tie))
MakeBq1 == \E f \in IT_FILTERS, tie \in TieOrders : Return(make_bq1_chart(tables, f, tie))
Bq2 == \E tie \in TieOrders : Return(bq2_avg_sdo_by_category(tables, tie))
MakeBq2 == \E tie \in TieOrders : Return(make_bq2_chart(tables, tie))
Bq4 == \E tie \in TieOrders : Return(bq4_contract_subcategories(tables, tie))
MakeBq4 == \E tie \in TieOrders : Return(make_bq4_chart(tables, tie))
Bq6 == Return(bq6_sdo_distribution_outliers(tables))
MakeBq6 == Return(make_bq6_chart(tables))
Bq7 == \E tie \in TieOrders : Return(bq7_sdo_coverage_rate(tables, tie))
MakeBq7 == Return(make_bq7_chart(tables))
Bq9 == Return(bq9_industry_diversity_heatmap(tables))
MakeBq9 == Return(make_bq9_chart(tables))
Bq10 == \E tie \in TieOrders : Return(bq10_it_vendor_concentration(tables, tie))
MakeBq10 == \E tie \in TieOrders : Return(make_bq10_chart(tables, tie))
MakeBq3 == Return(make_bq3_chart(tables))
MakeBq5 == Return(make_bq5_chart(tables))
MakeBq8 == Return(make_bq8_chart(tables))
MakeHistogram == Return(make_sdo_histogram(tables))
MakeRadar == Return(make_it_radar(tables))
Bq5 == \E tie \in TieOrders : Return(bq5_national_vs_local(tables, tie))
Bq8 == Return(bq8_vendor_count_vs_sdo(tables))

\* the tables are loaded, no view has been called
ViewInit ==
    /\ VInit /\ CIdle
    /\ \/ \E p \in Profiles, n \in 0..MaxVendorRows :
             tables = LoadTables(VendorTable(p, n), CatTable(0, MaxCatRows))
       \/ \E k \in 0..2, c \in 0..MaxCatRows :
             tables = LoadTables(<<>>, CatTable(k, c))
    /\ loaded = tables
    /\ view = [fn |-> "none"]
    /\ reqs = <<>> /\ run = <<>> /\ files = {}

ViewNext ==
    \/ Bq1 \/ MakeBq1 \/ Bq2 \/ MakeBq2 \/ Bq4 \/ MakeBq4 \/ Bq6 \/ MakeBq6
    \/ Bq7 \/ MakeBq7 \/ Bq9 \/ MakeBq9 \/ Bq10 \/ MakeBq10
    \/ MakeBq3 \/ MakeBq5 \/ MakeBq8 \/ MakeHistogram \/ MakeRadar
    \/ Bq5 \/ Bq8

ViewSpec == ViewInit /\ [][ViewNext]_vars

---------------------------------------------------------------------------
(* The views, called one after another in any order, on small tables *)

SessionInit ==
    /\ VInit /\ CIdle
    /\ \E p \in SmallProfiles, n \in 0..MaxSessionRows, c \in 0..MaxCatRows :
          tables = LoadTables(VendorTable(p, n), CatTable(0, c))
    /\ loaded = tables
    /\ view = [fn |-> "none"]
    /\ reqs = <<>> /\ run = <<>> /\ files = {}

SessionNext ==
    \/ \E tie \in TieOrders : Call(bq1_it_sector_top_sdo(tables, tie))
    \/ \E tie \in TieOrders : Call(bq2_avg_sdo_by_category(tables, tie))
    \/ \E tie \in TieOrders : Call(bq4_contract_subcategories(tables, tie))
    \/ Call(bq6_sdo_distribution_outliers(tables))
    \/ \E tie \in TieOrders : Call(bq7_sdo_coverage_rate(tables, tie))
    \/ Call(bq9_industry_diversity_heatmap(tables))
    \/ \E tie \in TieOrders : Call(bq10_it_vendor_concentration(tables, tie))
    \/ \E f \in IT_FILTERS, tie \in TieOrders : Call(make_bq1_chart(tables, f, tie))
    \/ \E tie \in TieOrders : Call(make_bq2_chart(tables, tie))
    \/ Call(make_bq3_chart(tables))
    \/ \E tie \in TieOrders : Call(make_bq4_chart(tables, tie))
    \/ Call(make_bq5_chart(tables))
    \/ Call(make_bq6_chart(tables))
    \/ Call(make_bq7_chart(tables))
    \/ Call(make_bq8_chart(tables))
    \/ Call(make_bq9_chart(tables))
    \/ \E tie \in TieOrders : Call(make_bq10_chart(tables, tie))
    \/ Call(make_sdo_histogram(tables))
    \/ Call(make_it_radar(tables))
    \/ \E tie \in TieOrders : Call(bq5_national_vs_local(tables, tie))
    \/ Call(bq8_vendor_count_vs_sdo(tables))

SessionSpec == SessionInit /\ [][SessionNext]_vars

---------------------------------------------------------------------------
(* dashboard.py, the callbacks: chart requests served at the same time,    *)
(* each calling its chart functions one after another on the shared tables *)

ALL == <<"A", "l", "l">>

\* the requests: render_tab(tab) for the four tabs, update_bq1(it_filter)
Requests ==
    [cb : {"render_tab"}, tab : {"tab-1", "tab-2", "tab-3", "tab-4"}, it_filter : {<<>>}]
    \cup [cb : {"update_bq1"}, tab : {"none"}, it_filter : IT_FILTERS \cup {<<>>}]

\* the chart functions a request calls, in the order it calls them
Charts(q) ==
    IF q.cb = "update_bq1" THEN <<"make_bq1">>
    ELSE IF q.tab = "tab-1" THEN <<"make_bq10", "make_it_radar">>
    ELSE IF q.tab = "tab-2" THEN <<"make_bq2", "make_bq6", "make_bq8", "make_sdo_histogram">>
    ELSE IF q.tab = "tab-3" THEN <<"make_bq7", "make_bq3", "make_bq4">>
    ELSE <<"make_bq5", "make_bq9">>

\* one chart function called on the tables h by request q
Chart(name, h, q, tie) ==
    CASE name = "make_bq1" ->
            make_bq1_chart(h, IF q.it_filter = <<>> THEN ALL ELSE q.it_filter, tie)
      [] name = "make_bq2" -> make_bq2_chart(h, tie)
      [] name = "make_bq3" -> make_bq3_chart(h)
      [] name = "make_bq4" -> make_bq4_chart(h, tie)
      [] name = "make_bq5" -> make_bq5_chart(h)
      [] name = "make_bq6" -> make_bq6_chart(h)
      [] name = "make_bq7" -> make_bq7_chart(h)
      [] name = "make_bq8" -> make_bq8_chart(h)
      [] name = "make_bq9" -> make_bq9_chart(h)
      [] name = "make_bq10" -> make_bq10_chart(h, tie)
      [] name = "make_sdo_histogram" -> make_sdo_histogram(h)
      [] name = "make_it_radar" -> make_it_radar(h)

NoRequest == [pc |-> "idle"]

\* the chart function raised: the callback does not go on
Raised(out) == "error" \in DOMAIN out /\ out.error # "none"

\* a request arrives and a worker takes it
Arrive(s) ==
    /\ reqs[s].pc = "idle"
    /\ \E q \in Requests :
          reqs' = [reqs EXCEPT ![s] = [pc |-> "running", q |-> q,
                                       todo |-> Charts(q), done |-> <<>>]]
    /\ UNCHANGED <<tables, loaded, view, run, files, vvars, cvars>>

\* the worker calls the next chart function of its request
CallChart(s) ==
    /\ reqs[s].pc = "running" /\ reqs[s].todo # <<>>
    /\ \E tie \in TieOrders :
          LET r == Chart(Head(reqs[s].todo), tables, reqs[s].q, tie)
          IN  /\ reqs' = [reqs EXCEPT ![s].todo = IF Raised(r.out) THEN <<>> ELSE Tail(@),
                                       ![s].done = Append(@, r.out)]
              /\ tables' = r.h
    /\ UNCHANGED <<loaded, view, run, files, vvars, cvars>>

\* the callback returns its charts
Respond(s) ==
    /\ reqs[s].pc = "running" /\ reqs[s].todo = <<>>
    /\ reqs' = [reqs EXCEPT ![s] = NoRequest]
    /\ UNCHANGED <<tables, loaded, view, run, files, vvars, cvars>>

ServeInit ==
    /\ VInit /\ CIdle
    /\ \E p \in { x \in SmallProfiles : x.cat \in {"cycle", "one"} } :
          tables = LoadTables(VendorTable(p, MaxSessionRows), CatTable(0, MaxCatRows))
    /\ loaded = tables
    /\ view = [fn |-> "none"]
    /\ reqs = [s \in 1..MaxRequests |-> NoRequest]
    /\ run = <<>> /\ files = {}

ServeNext == \E s \in 1..MaxRequests : Arrive(s) \/ CallChart(s) \/ Respond(s)

ServeSpec == ServeInit /\ [][ServeNext]_vars

---------------------------------------------------------------------------
(* The scripts as runs: main() of eda_analysis.py, static_builder.py and   *)
(* the main block of generate_report.py.  A run takes its steps in order;  *)
(* a step that raises ends the run, for no step is inside a try that       *)
(* catches it.  A step that returns has written the file it writes.        *)

NoFile == "none"

Step(name, writes) == [name |-> name, writes |-> writes]

\* main() of eda_analysis.py: every bq function ends with save_plot
EdaSteps ==
    << Step("load_vendor_data", NoFile),
       Step("load_categorized_companies", NoFile),
       Step("bq1_it_sector_top_sdo", "output/BQ1_IT_Top_SDO_Companies.png"),
       Step("bq2_avg_sdo_by_category", "output/BQ2_Avg_SDO_by_Category.png"),
       Step("bq3_vendor_distribution", "output/BQ3_Vendor_Distribution_Treemap.png"),
       Step("bq4_contract_subcategories", "output/BQ4_Contract_Subcategory_Vendors.png"),
       Step("bq5_national_vs_local", "output/BQ5_National_vs_Local_Industries.png"),
       Step("bq6_sdo_distribution_outliers", "output/BQ6_SDO_Distribution_Boxplot.png"),
       Step("bq7_sdo_coverage_rate", "output/BQ7_SDO_Coverage_Rate.png"),
       Step("bq8_vendor_count_vs_sdo", "output/BQ8_Vendor_Count_vs_SDO_Scatter.png"),
       Step("bq9_industry_diversity_heatmap", "output/BQ9_Industry_Diversity_Heatmap.png"),
       Step("bq10_it_vendor_concentration", "output/BQ10_IT_Vendor_Concentration_Donut.png") >>

\* static_builder.py: the charts are kept in memory, index.html is written
\* by the last statement
StaticSteps ==
    << Step("import dashboard", NoFile),
       Step("generate_kpi_html", NoFile),
       Step("make_bq1_chart('All')", NoFile),
       Step("make_bq1_chart('ITE')", NoFile),
       Step("make_bq1_chart('ITS')", NoFile),
       Step("make_bq1_chart('ITT')", NoFile),
       Step("make_bq10_chart", NoFile),
       Step("make_it_radar", NoFile),
       Step("make_bq2_chart", NoFile),
       Step("make_bq6_chart", NoFile),
       Step("make_bq8_chart", NoFile),
       Step("make_sdo_histogram", NoFile),
       Step("make_bq7_chart", NoFile),
       Step("make_bq3_chart", NoFile),
       Step("make_bq4_chart", NoFile),
       Step("make_bq5_chart", NoFile),
       Step("make_bq9_chart", NoFile),
       Step("write index.html", "index.html") >>

\* generate_report.py: the BQ11 plot is saved before the document is built
ReportSteps ==
    << Step("load_vendor_data", NoFile),
       Step("load_categorized_companies", NoFile),
       Step("generate_sector_analysis", "output/BQ11_Sector_Company_Density.png"),
       Step("create_report", "ALY6980_EDA_Report.docx") >>

Programs == {"eda_analysis", "static_builder", "generate_report"}

StepsOf(prog) ==
    IF prog = "eda_analysis" THEN EdaSteps
    ELSE IF prog = "static_builder" THEN StaticSteps
    ELSE ReportSteps

\* the files on disk after a step of run id has raised: nothing is removed
FilesAfterFailure(fs, id) == fs

\* the files on disk after a step has written name: a file of that name from
\* an earlier run is replaced
FilesAfterWrite(fs, name, id) ==
    IF name = NoFile THEN fs
    ELSE { f \in fs : f.name # name } \cup { [name |-> name, by |-> id] }

\* a script is started
StartRun ==
    /\ run.status # "running"
    /\ run.id < MaxRuns
    /\ \E prog \in Programs :
          run' = [prog |-> prog, id |-> run.id + 1, pc |-> 1, status |-> "running"]
    /\ UNCHANGED <<files, tables, loaded, view, reqs, vvars, cvars>>

\* the next step of the script returns
StepReturns ==
    /\ run.status = "running"
    /\ LET steps == StepsOf(run.prog)
       IN  /\ files' = FilesAfterWrite(files, steps[run.pc].writes, run.id)
           /\ run' = IF run.pc = Len(steps)
                     THEN [run EXCEPT !.status = "done"]
                     ELSE [run EXCEPT !.pc = @ + 1]
    /\ UNCHANGED <<tables, loaded, view, reqs, vvars, cvars>>

\* the next step of the script raises: the process ends with the traceback
StepRaises ==
    /\ run.status = "running"
    /\ run' = [run EXCEPT !.status = "failed"]
    /\ files' = FilesAfterFailure(files, run.id)
    /\ UNCHANGED <<tables, loaded, view, reqs, vvars, cvars>>

RunInit ==
    /\ VInit /\ CIdle
    /\ tables = <<>> /\ loaded = <<>> /\ view = <<>> /\ reqs = <<>>
    /\ run = [prog |-> "none", id |-> 0, pc |-> 0, status |-> "idle"]
    /\ files = {}

RunNext == StartRun \/ StepReturns \/ StepRaises

RunSpec == RunInit /\ [][RunNext]_vars

---------------------------------------------------------------------------
(* Claims about the views *)

Rows(t) == { t[i] : i \in 1..Len(t) }

\* the categories of the vendor table
VendorCategories == { r.Category : r \in Rows(loaded.vendor_df) }

\* the SDO-eligible rows of the loaded vendor table: commitment present, > 0
Eligible == { r \in Rows(loaded.vendor_df) :
                 r.SDO_Pct.k # "nan" /\ FloatGreater(r.SDO_Pct, Float(0)) }

One == Float(100)

\* y is the cap of x: x when x <= 1.0, 1.0 when x > 1.0; capping y again gives y
IsCapOf(y, x) ==
    /\ FloatLeq(x, One) => y = x
    /\ FloatGreater(x, One) => y = One
    /\ Clip(y) = y

\* C11: the capped column of every capped view holds, for every commitment x
\* it is built from, x when x <= 1.0 and 1.0 when x > 1.0, and capping the
\* capped value again changes nothing.  The capped views are the shared
\* vendor_with_sdo of the dashboard and the copy bq2 works on.
C11_CapIsMinWithOne ==
    /\ \A r \in Rows(tables.vendor_with_sdo) : IsCapOf(r.SDO_Capped, r.SDO_Pct)
    /\ view.fn = "bq2" =>
          /\ Len(view.frame) = Len(view.source)
          /\ \A i \in 1..Len(view.frame) :
                IsCapOf(view.frame[i].SDO_Pct, view.source[i].SDO_Pct)

\* bq2 has capped a table with a commitment over 1.0, an infinite one and
\* one within range
C11_Witness ==
    /\ view.fn = "bq2"
    /\ \E i, j, k \in 1..Len(view.source) :
          /\ view.source[i].SDO_Pct = Float(150) /\ view.frame[i].SDO_Pct = One
          /\ view.source[j].SDO_Pct = Inf(1) /\ view.frame[j].SDO_Pct = One
          /\ view.source[k].SDO_Pct = Float(50) /\ view.frame[k].SDO_Pct = Float(50)
    /\ \E r \in Rows(tables.vendor_with_sdo) : r.SDO_Pct = Float(150)

\* the number of SDO-eligible rows of a category
EligibleCount(c) == Cardinality({ r \in Eligible : r.Category = c })

SeqSet(s) == { s[i] : i \in 1..Len(s) }

\* C12: a category is in the box-plot view exactly if it has at least 10
\* SDO-eligible rows, the rows of the view are the eligible rows of these
\* categories, and a higher threshold includes no category a lower one
\* leaves out.
C12_IncludedIffTenEligible ==
    view.fn \in {"bq6", "make_bq6"} =>
        /\ \A c \in VendorCategories : c \in SeqSet(view.cats) <=> EligibleCount(c) >= 10
        /\ SeqSet(view.cats) \subseteq VendorCategories
        /\ { r.idx : r \in Rows(view.rows) }
              = { r.idx : r \in { e \in Eligible : EligibleCount(e.Category) >= 10 } }
        /\ \A t1 \in 8..12 : \A t2 \in t1..12 :
              SeqSet(ValidCats(view.eligible, t2)) \subseteq SeqSet(ValidCats(view.eligible, t1))

\* the box plot shows a category of exactly 10 eligible rows and leaves out
\* one that has eligible rows, but fewer
C12_Witness ==
    /\ view.fn \in {"bq6", "make_bq6"}
    /\ \E c \in SeqSet(view.cats) : EligibleCount(c) = 10
    /\ \E c \in VendorCategories \ SeqSet(view.cats) : EligibleCount(c) > 0

\* the views that return the top n rows of a ranking
TopNViews == {"bq1", "make_bq1", "bq4", "make_bq4", "bq10", "make_bq10"}

\* the ranking metric of a row of a top-n view
Metric(r) == IF "SDO_Max" \in DOMAIN r THEN r.SDO_Max ELSE Float(r.Count)

\* where a row of the view stood before sort_values
PreIndex(r) == CHOOSE i \in 1..Len(view.pre) : view.pre[i] = r

\* C13: every top-N view returns at most N rows, in descending order of the
\* ranking metric, rows of equal metric in the order they had before the sort.
C13_TopNDescendingStable ==
    view.fn \in TopNViews =>
        /\ Len(view.rows) <= view.n
        /\ \A i, j \in 1..Len(view.rows) :
              i < j =>
                 /\ ~FloatLess(Metric(view.rows[i]), Metric(view.rows[j]))
                 /\ Metric(view.rows[i]) = Metric(view.rows[j])
                       => PreIndex(view.rows[i]) < PreIndex(view.rows[j])

\* the vendor rows of a category
CategoryRows(c) == { r \in Rows(loaded.vendor_df) : r.Category = c }

\* e is the entry of category c in the coverage view: bq7 lists categories by
\* code, make_bq7_chart by label
IsEntryOf(e, c) ==
    IF view.fn = "bq7" THEN e.Key = c ELSE Text(e.Key) = MapLabel(c)

\* C14: for every category of the vendor table the coverage view has an
\* entry whose has-SDO count is the number of rows of the category with a
\* commitment, whose no-SDO count is the number without, and the two add up
\* to the number of rows of the category.
C14_CoverageAddsUp ==
    view.fn \in {"bq7", "make_bq7"} =>
        \A c \in VendorCategories :
            \E e \in Rows(view.rows) :
                /\ IsEntryOf(e, c)
                /\ e.Has_SDO = Cardinality({ r \in CategoryRows(c) : r.SDO_Pct.k # "nan" })
                /\ e.No_SDO = Cardinality({ r \in CategoryRows(c) : r.SDO_Pct.k = "nan" })
                /\ e.Has_SDO + e.No_SDO = Cardinality(CategoryRows(c))

\* the (company, contract code) pairs of the IT categories
ITAssociations ==
    { <<r.Company, r.Contract_Code>> :
        r \in { x \in Rows(loaded.vendor_df) : x.Category \in {ITE, ITS, ITT} } }

ITCompanies == { a[1] : a \in ITAssociations }

\* C15: in the concentration view the top-10 counts and the rest bucket add
\* up to the number of (company, contract code) associations of the IT
\* categories, the rest is not negative, and the top 10 are min(10, number of
\* IT companies) rows, each with its company's count.
C15_TopTenPlusRestIsTotal ==
    view.fn \in {"bq10", "make_bq10"} =>
        /\ SumSeq(Counts(view.rows)) + view.rest = Cardinality(ITAssociations)
        /\ view.rest >= 0
        /\ Len(view.rows) = IF Cardinality(ITCompanies) < 10
                            THEN Cardinality(ITCompanies) ELSE 10
        /\ \A r \in Rows(view.rows) :
              r.Count = Cardinality({ a \in ITAssociations : a[1] = r.Company })

\* more than 10 IT companies, and the rest bucket is not empty
C15_Witness ==
    /\ view.fn \in {"bq10", "make_bq10"}
    /\ Cardinality(ITCompanies) > 10
    /\ view.rest > 0
    /\ SumSeq(Counts(view.rows)) > 10

\* C18 as claimed: a vendor record of the dashboard whose category is a key of
\* the dictionary has the dictionary's label, and one whose category is no
\* key has the category code itself as its label.
C18_UnmappedKeepsCode ==
    \A r \in Rows(tables.vendor_df) :
        r.Category_Label = Text(get_category_label(r.Category))

\* C18, amended: a vendor record of the dashboard whose category is a key of
\* the dictionary has the dictionary's label and one whose category is no
\* key has no label; the labels get_category_label adds to the coverage view
\* are the dictionary's label for a key and the code itself for any other.
C18_UnmappedHasNoLabel ==
    /\ \A r \in Rows(tables.vendor_df) :
          /\ r.Category \in DictKeys(CATEGORY_NAMES)
                => r.Category_Label = Text(DictValue(CATEGORY_NAMES, r.Category))
          /\ r.Category \notin DictKeys(CATEGORY_NAMES) => r.Category_Label = Blank
    /\ view.fn = "bq7" =>
          \A e \in Rows(view.rows) :
              /\ e.Key \in DictKeys(CATEGORY_NAMES)
                    => e.Label = DictValue(CATEGORY_NAMES, e.Key)
              /\ e.Key \notin DictKeys(CATEGORY_NAMES) => e.Label = e.Key

\* the vendor table has a category of the dictionary and one outside it, and
\* bq7 has labelled both
C18_Witness ==
    /\ view.fn = "bq7"
    /\ \E r \in Rows(tables.vendor_df) : r.Category = XYZ /\ r.Category_Label = Blank
    /\ \E r \in Rows(tables.vendor_df) : r.Category = FAC /\ r.Category_Label # Blank
    /\ \E e \in Rows(view.rows) : e.Key = XYZ /\ e.Label = XYZ

\* the eligible rows behind a row of the top-15 view
PairRows(r) ==
    { e \in Eligible :
        /\ e.Company = r.Company
        /\ e.Category \in {ITE, ITS, ITT}
        /\ IF view.fn = "bq1" THEN e.Category = r.Category
           ELSE e.Category_Label = Text(r.Category_Label) }

\* C20: in the top-15-by-commitment view every (company, category) pair is
\* there at most once, its value is the largest min(commitment, 1.0) of the
\* pair's SDO-eligible rows, and no value is over 1.0.
C20_MaxOfCappedPerPair ==
    view.fn \in {"bq1", "make_bq1"} =>
        /\ \A i, j \in 1..Len(view.rows) :
              i # j => <<view.rows[i].Company, view.rows[i][IF view.fn = "bq1" THEN "Category" ELSE "Category_Label"]>>
                       # <<view.rows[j].Company, view.rows[j][IF view.fn = "bq1" THEN "Category" ELSE "Category_Label"]>>
        /\ \A r \in Rows(view.rows) :
              /\ \E e \in PairRows(r) : Clip(e.SDO_Pct) = r.SDO_Max
              /\ \A e \in PairRows(r) : FloatLeq(Clip(e.SDO_Pct), r.SDO_Max)
              /\ FloatLeq(r.SDO_Max, One)

\* C16: after any sequence of view calls the vendor table, the
\* categorized-company table and the shared SDO-eligible table are, row for
\* row and column for column, what they were right after loading.
C16_TablesAsLoaded == tables = loaded

\* bq2 has run on a table with a commitment over 1.0 and has capped it in
\* its copy; the vendor table still has the commitment
C16_Witness ==
    /\ view.fn = "bq2"
    /\ \E i \in 1..Len(view.frame) :
          /\ view.frame[i].SDO_Pct = Float(100)
          /\ \E r \in Rows(tables.vendor_df) :
                r.idx = view.frame[i].idx /\ r.SDO_Pct = Float(150)
    /\ tables = loaded

\* the requests a worker is serving
Running == { s \in DOMAIN reqs : reqs[s].pc = "running" }

\* what chart number i of request q returns when the request runs alone
Alone(q, i) == { Chart(Charts(q)[i], loaded, q, tie).out : tie \in TieOrders }

\* C17: whatever requests are served at the same time and however their
\* chart calls interleave, every chart a request has got is one the request
\* gets when it runs alone on the loaded tables, and the shared tables the
\* next call reads are the loaded ones.
C17_SameResultAsAlone ==
    /\ \A s \in Running :
          \A i \in 1..Len(reqs[s].done) : reqs[s].done[i] \in Alone(reqs[s].q, i)
    /\ tables = loaded

\* two requests are under way at once: render_tab('tab-2') is between
\* make_bq8_chart and make_sdo_histogram while update_bq1 has its chart
C17_Witness ==
    \E s, t \in Running :
        /\ reqs[s].q.tab = "tab-2" /\ Len(reqs[s].done) = 3
        /\ Len(reqs[s].done[3].rows) > 0
        /\ reqs[t].q.cb = "update_bq1" /\ Len(reqs[t].done) = 1
        /\ Len(reqs[t].done[1].rows) > 0

\* the files the current run has written
Artifacts == { f \in files : f.by = run.id }

\* C19: a run is all-or-nothing: when a step of a run has failed, no plot
\* image, index.html or report document written by that run is on disk.
C19_AllOrNothing == run.status = "failed" => Artifacts = {}

---------------------------------------------------------------------------
(* Claims about the correlation, average, radar, contract-code, cross-   *)
(* tabulation and concentration views                                     *)

\* the rows of the loaded vendor table with 0 < commitment <= 1.0
InRange == { r \in Eligible : FloatLeq(r.SDO_Pct, One) }

\* the rows of category c among the rows the correlation view may use
InRangeOf(c) == SelectSeq(loaded.vendor_df, LAMBDA r : r \in InRange /\ r.Category = c)

\* C21: the correlation view uses exactly the vendor rows with
\* 0 < commitment <= 1.0: a row with a raw commitment above 1.0 is in no
\* category's vendor count and in no category's mean.
C21_OnlyRowsUpToOne ==
    view.fn \in {"bq8", "make_bq8"} =>
        /\ { r.idx : r \in Rows(view.used) } = { r.idx : r \in InRange }
        /\ \A e \in Rows(view.rows) :
              /\ e.Count = Len(InRangeOf(e.Category))
              /\ e.Vendors = Cardinality({ r.Company : r \in Rows(InRangeOf(e.Category)) })
              /\ e.Sum = SumSeq(Column(InRangeOf(e.Category), LAMBDA r : r.SDO_Pct.v))

\* the categories that qualify for the correlation view
Qualifying == { r.Category : r \in Rows(view.used) }

\* C22: the correlation coefficient and the regression line are there
\* exactly if at least 3 categories qualify; with fewer the view completes
\* without error, with no coefficient and no line.
C22_CorrelationIffThree ==
    view.fn \in {"bq8", "make_bq8"} =>
        /\ (view.corr = "computed" /\ view.line = "drawn") <=> Cardinality(Qualifying) >= 3
        /\ Cardinality(Qualifying) < 3 =>
              view.error = "none" /\ view.corr = "absent" /\ view.line = "omitted"

\* e is the entry of category c in the average view: bq2 lists categories by
\* code, make_bq2_chart by label
IsAverageOf(e, c) ==
    IF view.fn = "bq2" THEN e.Key = c ELSE Text(e.Key) = MapLabel(c)

\* min(commitment, 1.0) of an eligible row, in hundredths
CappedValue(r) == IF FloatGreater(r.SDO_Pct, One) THEN 100 ELSE r.SDO_Pct.v

EligibleOf(c) == SelectSeq(loaded.vendor_df, LAMBDA r : r \in Eligible /\ r.Category = c)

\* C23: the average view has exactly one entry for every category with an
\* SDO-eligible row and no other entry; the entry's count is the number of
\* eligible rows, its mean (Sum / Count) is the mean of min(commitment, 1.0),
\* above 0 and at most 1.0; the entries come in non-decreasing order of mean.
C23_OneAveragePerCategory ==
    view.fn \in {"bq2", "make_bq2"} =>
        /\ \A c \in { r.Category : r \in Eligible } :
              Cardinality({ i \in 1..Len(view.rows) : IsAverageOf(view.rows[i], c) }) = 1
        /\ \A e \in Rows(view.rows) :
              \E c \in { r.Category : r \in Eligible } :
                  /\ IsAverageOf(e, c)
                  /\ e.Count = Len(EligibleOf(c))
                  /\ e.Sum = SumSeq(Column(EligibleOf(c), CappedValue))
                  /\ 0 < e.Sum /\ e.Sum <= 100 * e.Count
        /\ \A i, j \in 1..Len(view.rows) :
              i < j => view.rows[i].Sum * view.rows[j].Count
                           <= view.rows[j].Sum * view.rows[i].Count

\* C24: every normalized value of the radar lies in [0, 100], and for every
\* one of the five metrics at least one of the three categories reads 100.
C24_NormalizedToHundred ==
    view.fn = "make_it_radar" =>
        /\ \A c \in 1..3, m \in 1..5 :
              LET x == view.normalized[c][m]
              IN  x.k = "num" /\ 0 <= x.n /\ x.n <= 100 * x.d
        /\ \A m \in 1..5 :
              \E c \in 1..3 :
                  LET x == view.normalized[c][m]
                  IN  x.k = "num" /\ x.n = 100 * x.d

\* the companies of the vendor rows with contract code k
CompaniesOf(k) == { r.Company : r \in { x \in Rows(loaded.vendor_df) : x.Contract_Code = k } }

VendorCodes == { r.Contract_Code : r \in Rows(loaded.vendor_df) }

\* C25: every code of the contract-code view has at most 15 characters, its
\* count is the number of distinct companies of the vendor rows with the
\* code, no code of at most 15 characters that is left out has a greater
\* count than a code of the view, and the view has the top 25 (report) or
\* top 20 (dashboard).
C25_ShortCodesByCompanies ==
    view.fn \in {"bq4", "make_bq4"} =>
        /\ view.n = IF view.fn = "bq4" THEN 25 ELSE 20
        /\ Len(view.rows) <= view.n
        /\ \A e \in Rows(view.rows) :
              /\ e.Code \in VendorCodes
              /\ Len(e.Code) <= 15
              /\ e.Count = Cardinality(CompaniesOf(e.Code))
        /\ \A k \in VendorCodes :
              (Len(k) <= 15 /\ k \notin { e.Code : e \in Rows(view.rows) }) =>
                  /\ Len(view.rows) = view.n
                  /\ \A e \in Rows(view.rows) : Cardinality(CompaniesOf(k)) <= e.Count

\* the dashboard's top 20 leaves out a code of 16 characters and a short
\* code, and holds a code of exactly 15 characters and codes of different
\* counts
C25_Witness ==
    /\ view.fn = "make_bq4"
    /\ \E k \in VendorCodes : Len(k) = 16
    /\ \E k \in VendorCodes : Len(k) <= 15 /\ k \notin { e.Code : e \in Rows(view.rows) }
    /\ \E e \in Rows(view.rows) : Len(e.Code) = 15
    /\ \E e, f \in Rows(view.rows) : e.Count < f.Count

\* the three types of the categorized-company table
CompanyTypes == { Buckets[i].typ : i \in 1..Len(Buckets) }

CatIndustries == { r.Industry : r \in Rows(loaded.cat_df) }

\* the cell of the cross-tabulation for industry ind and type t
HasCell(ind, t, n) ==
    \E e \in Rows(view.rows) : e.Industry = ind /\ t \in DOMAIN e.Counts /\ e.Counts[t] = n

\* the sum of the cells of one row of the cross-tabulation
RowTotal(e) ==
    SumSeq([i \in 1..Len(Buckets) |->
               IF Buckets[i].typ \in DOMAIN e.Counts THEN e.Counts[Buckets[i].typ] ELSE 0])

\* C26: on a table with rows the cross-tabulation is built, the cell of
\* every industry of the table and every type holds the number of rows with
\* that industry and type (0 when there is none), and the cells add up to
\* the number of rows.
C26_CrossTabComplete ==
    (view.fn \in {"bq5", "bq9", "make_bq9"} /\ loaded.cat_df # <<>>) =>
        /\ view.error = "none"
        /\ \A ind \in CatIndustries, t \in CompanyTypes :
              HasCell(ind, t, Cardinality({ r \in Rows(loaded.cat_df) :
                                              r.Industry = ind /\ r.Type = t }))
        /\ SumSeq([i \in 1..Len(view.rows) |-> RowTotal(view.rows[i])]) = Len(loaded.cat_df)

\* C28: the number of companies in the label of the 'Other' bucket is the
\* number of IT companies that are not among the top 10, and is not negative.
C28_OtherCountsTheRest ==
    view.fn \in {"bq10", "make_bq10"} =>
        /\ view.other = Cardinality(ITCompanies) - Len(view.rows)
        /\ view.other >= 0

---------------------------------------------------------------------------
(* The copies of load_vendor_data in dashboard.py and generate_report.py, *)
(* run on the workbook load_vendor_data of eda_analysis.py has read       *)

\* str(x) in the lambda of dashboard.py: 'nan' for a missing cell
PyStr(c) == IF c.t = "blank" THEN <<"n", "a", "n">> ELSE c.s

\* dashboard.py: the lambda of df['Company'].apply(...), str(x).lower()
DashboardMask(company) ==
    ~\E k \in 1..Len(metadata_keywords) :
        Contains(Lower(PyStr(company)), LoweredKeywords[k])

\* generate_report.py: the lambda of df['Company'].astype(str).apply(...)
ReportMask(company) ==
    ~\E k \in 1..Len(metadata_keywords) :
        Contains(Lower(AsStr(company)), LoweredKeywords[k])

DashboardRow_RawCompany(r, sheet, pos, i) ==
    [Contract_Code |-> CleanText(r.Contract_Code),
     Name |-> CleanText(r.Name),
     Company |-> AsStr(r.Company),
     Role |-> r.Role, Email |-> r.Email, Phone |-> r.Phone,
     SDO_Pct |-> ToNumeric(r.SDO_Commitment_Pct),
     Category |-> Strip(sheet),
     Category_Label |-> MapLabel(Strip(sheet)),
     src |-> <<pos, i>>]

\* dashboard.py: one row of the per-sheet table; the seventh column is named
\* SDO_Pct, and Category_Label is added
DashboardRow(r, sheet, pos, i) ==
    [Contract_Code |-> CleanText(r.Contract_Code),
     Name |-> CleanText(r.Name),
     Company |-> CleanText(r.Company),
     Role |-> r.Role, Email |-> r.Email, Phone |-> r.Phone,
     SDO_Pct |-> ToNumeric(r.SDO_Commitment_Pct),
     Category |-> Strip(sheet),
     Category_Label |-> MapLabel(Strip(sheet)),
     src |-> <<pos, i>>]

\* generate_report.py: one row of the per-sheet table
ReportRow(r, sheet, pos, i) ==
    [Contract_Code |-> CleanText(r.Contract_Code),
     Name |-> CleanText(r.Name),
     Company |-> CleanText(r.Company),
     Role |-> r.Role, Email |-> r.Email, Phone |-> r.Phone,
     SDO_Pct |-> ToNumeric(r.SDO_Commitment_Pct),
     Category |-> Strip(sheet),
     src |-> <<pos, i>>]

\* df = df[mask].copy() and the cleaning statements, row by row
RECURSIVE CopyRows(_, _, _, _, _)
CopyRows(copy, df, sheet, pos, i) ==
    IF i > Len(df) THEN <<>>
    ELSE (IF copy = "dashboard"
          THEN (IF DashboardMask(df[i].Company)
                THEN <<DashboardRow(df[i], sheet, pos, i)>> ELSE <<>>)
          ELSE (IF ReportMask(df[i].Company)
                THEN <<ReportRow(df[i], sheet, pos, i)>> ELSE <<>>))
         \o CopyRows(copy, df, sheet, pos, i + 1)

\* the pandas build selects columns with the empty mask of a sheet without
\* data rows: seen where load_vendor_data of eda_analysis.py met such a sheet
EmptyMaskSelectsColumns(k) ==
    vpc = "failed" /\ verr = "KeyError" /\ k = Len(vsource)

\* the for-loop and the return of a copy, from sheet k on; "running" when
\* the copy would read a sheet that eda_analysis.py never got to
RECURSIVE LoadCopy(_, _, _)
LoadCopy(copy, k, fs) ==
    IF k > Len(sheet_names)
    THEN (IF fs = <<>> THEN [err |-> "ValueError", rows |-> <<>>]
          ELSE [err |-> "none", rows |-> ConcatFrames(fs)])
    ELSE IF IsSkipped(sheet_names[k]) THEN LoadCopy(copy, k + 1, fs)
    ELSE IF k > Len(vsource) THEN [err |-> "running", rows |-> <<>>]
    ELSE IF vsource[k].ncols < KeepCols THEN [err |-> "ValueError", rows |-> <<>>]
    ELSE IF vsource[k].rows = <<>> /\ EmptyMaskSelectsColumns(k)
         THEN [err |-> "KeyError", rows |-> <<>>]
    ELSE LoadCopy(copy, k + 1,
                  Append(fs, CopyRows(copy, ReadExcel(vsource[k]), sheet_names[k], k, 1)))

\* load_vendor_data of dashboard.py or generate_report.py on the same file
load_vendor_data(copy) ==
    IF verr = "OpenError" THEN [err |-> "OpenError", rows |-> <<>>]
    ELSE LoadCopy(copy, 1, <<>>)

\* data rows of the workbook the three copies are compared on
MaxCopyRows == 2

\* the workbook read so far has at most MaxCopyRows data rows
SmallWorkbook == RowsRead(vsource) <= MaxCopyRows

\* load_vendor_data of eda_analysis.py on the small workbooks; the copies
\* are run on what it has read
CopiesNext ==
    \/ OpenWorkbook /\ SmallWorkbook'
    \/ SkipSheet /\ SmallWorkbook'
    \/ LoadSheet /\ SmallWorkbook'
    \/ ConcatAndReturn /\ SmallWorkbook'

CopiesSpec == VendorInit /\ [][CopiesNext]_vars

---------------------------------------------------------------------------
(* Claims about the copies of load_vendor_data *)

\* the seven source fields and the category of a row, by position
EdaValues(r) ==
    <<r.Contract_Code, r.Name, r.Company, r.Role, r.Email, r.Phone,
      r.SDO_Commitment_Pct, r.Category>>

CopyValues(r) ==
    <<r.Contract_Code, r.Name, r.Company, r.Role, r.Email, r.Phone,
      r.SDO_Pct, r.Category>>

\* C27: on every workbook the three copies of load_vendor_data fail
\* together, with the same exception, or return the same rows in the same
\* order with the same values of the seven source fields and the category;
\* the dashboard's rows also carry the label of the category.
C27_CopiesAgree ==
    vpc \in {"done", "failed"} =>
        LET dashboard == load_vendor_data("dashboard")
            report == load_vendor_data("report")
            eda == [j \in 1..Len(combined) |-> EdaValues(combined[j])]
        IN  /\ dashboard.err = verr
            /\ report.err = verr
            /\ vpc = "done" =>
                  /\ eda = [j \in 1..Len(dashboard.rows) |-> CopyValues(dashboard.rows[j])]
                  /\ eda = [j \in 1..Len(report.rows) |-> CopyValues(report.rows[j])]
                  /\ \A r \in Rows(dashboard.rows) :
                        r.Category_Label = MapLabel(r.Category)

\* the three copies return the rows of a workbook that has a boilerplate
\* row, a text to clean and a sheet name to trim
C27_Witness ==
    /\ vpc = "done" /\ Len(combined) >= 1
    /\ Len(load_vendor_data("dashboard").rows) = Len(combined)
    /\ Len(load_vendor_data("report").rows) = Len(combined)
    /\ RowsRead(vsource) > Len(combined)
    /\ \E j \in 1..Len(combined) : SourceRow(combined[j]).Company # Text(combined[j].Company)
    /\ \E k \in 1..Len(sheet_names) : ~SkipListed(sheet_names[k]) /\ Strip(sheet_names[k]) # sheet_names[k]

\* the source rows of the retained sheets whose company cell is empty
EmptyCompanyRows ==
    {<<p, i>> \in (1..Len(vsource)) \X (1..MaxRows + 1) :
        /\ ~SkipListed(sheet_names[p])
        /\ i <= Len(vsource[p].rows)
        /\ vsource[p].rows[i].Company = Blank}

\* C29: a source row with an empty company cell is not removed by the
\* metadata filter: the returned table has a row for it, and the company of
\* that row is the text 'nan'.
C29_EmptyCompanyIsNan ==
    vpc = "done" =>
        \A e \in EmptyCompanyRows :
            \E j \in 1..Len(combined) :
                combined[j].src = e /\ combined[j].Company = <<"n", "a", "n">>

\* a table is returned for a workbook with a row whose company cell is empty
C29_Witness ==
    vpc = "done" /\ EmptyCompanyRows # {}

\* C30: when the workbook could be opened and every sheet of it is
\* skip-listed, or it has no sheet, load_vendor_data fails with the
\* ValueError of pd.concat and returns no table.
C30_NoDataSheetFails ==
    (/\ vpc \in {"done", "failed"}
     /\ verr # "OpenError"
     /\ \A k \in 1..Len(sheet_names) : SkipListed(sheet_names[k])) =>
        vpc = "failed" /\ verr = "ValueError" /\ combined = <<>>

\* the loader has failed on a workbook of two sheets, both skip-listed
C30_Witness ==
    /\ vpc = "failed" /\ verr = "ValueError"
    /\ Len(sheet_names) = 2
    /\ \A k \in 1..Len(sheet_names) : SkipListed(sheet_names[k])
    /\ frames = <<>>

====
